---- MODULE Spec2Model ----
(***************************************************************************)
(* Render controller of panoconfig360_backend (api/server.py): the rate    *)
(* limiter, the cache check, the per-build render lock, the admission      *)
(* under active_background_guard, the synchronous LOD0 phase, the          *)
(* background task _render_build_background, the build-status registry     *)
(* and GET /api/status/{build}.                                            *)
(*                                                                         *)
(* Time is counted in ticks of half a second.  A tile batch handed to      *)
(* upload_tiles_parallel is uploaded in one step; when the batch fails the *)
(* puts that succeeded are taken as a prefix of the submission order, so   *)
(* the object store holds a count of tiles per LOD.  Compositing,          *)
(* splitting and every put to the object store may fail; writes to the     *)
(* local disk (the temp file of metadata.json) do not.                     *)
(***************************************************************************)
EXTENDS Integers, Sequences, FiniteSets, TLC

\* ------------------------------------------------------------------ bounds
MaxRequests == 3
MaxRenders == 2
MaxClock == 4
MaxWorkers == 4
MaxTiles == 4
MaxPool == 2
MaxCalls == 2
MaxLogTiles == 2
MaxLimit == 2
MaxLayers == 2
MaxSelections == 2
MaxIdLen == 3
MaxKeys == 3
MaxCallers == 2
MaxGets == 4

\* --------------------------------------------------------------- constants
MIN_INTERVAL == 2
MAX_RENDER_LOCKS == 256
DEFAULT_TILES_TOTAL == 48
TILE_SIZE == 512
RenderCapacity == 1

Reqs == 1..MaxRequests
NoReq == 0

\* The upload worker threads of one upload_tiles_parallel call.
Workers == 1..MaxWorkers
NoWorker == 0

\* A render key "{client}:{scene}:{build}"; client and scene are one component.
Clients == {"c1", "c2"}
Builds == {"b1"}
RenderKeys == Clients \X Builds
BuildOf(k) == k[2]
NoKey == <<"none", "none">>

FaceSizes == {512, 1024, 2048}

VARIABLES
    clock,                     \* time.monotonic(), in ticks
    last_request_time,         \* server.last_request_time
    pc,                        \* position of each request thread in render_cubemap
    key,                       \* render_key of each request
    now,                       \* the local `now` of each request
    resp,                      \* response of each request
    min_lod_for_background,    \* min_lod_for_background of each request
    bg,                        \* position of the background task each request scheduled
    bgResult,                  \* how that background task ended
    render_locks,              \* server.render_locks, keys in LRU order
    lockHolder,                \* which request holds the render lock of a key
    guardHolder,               \* which request holds active_background_guard
    active_background_renders, \* server.active_background_renders
    BUILD_STATUS,              \* server.BUILD_STATUS
    tiles,                     \* object store: tiles present per tile root and LOD
    meta,                      \* object store: metadata.json per tile root
    tmpFiles,                  \* temp files of background tasks on local disk
    faceSize                   \* face size of the composite of each render key

\* The upload worker threads inside _increment_build_tiles_uploaded.
VARIABLES
    BUILD_LOCK,                \* which worker thread holds server.BUILD_LOCK
    held,                      \* the local `current` of each worker thread
    wpc                        \* position of each worker thread

\* The state of the render controller other than the registry.
ctlVars == <<clock, last_request_time, pc, key, now, resp,
             min_lod_for_background, bg, bgResult, render_locks, lockHolder,
             guardHolder, active_background_renders, tiles, meta, tmpFiles,
             faceSize>>

regVars == <<BUILD_LOCK, held, wpc>>

\* One TileUploadQueue, its producer and its worker threads.
VARIABLES
    impl,                      \* which of the two TileUploadQueue classes
    workers,                   \* self.workers
    ntiles,                    \* how many tiles the producer will enqueue
    file,                      \* tile -> whether its local file is on disk
    states,                    \* self._states
    queued,                    \* self._queue, or the executor's work queue
    permits,                   \* the value of self._backpressure
    closed,                    \* self._closed
    uploaded_count,            \* self._uploaded_count
    errors,                    \* len(self._errors)
    thread,                    \* position of each worker thread
    item,                      \* the tile each worker thread holds
    result,                    \* tile -> what its upload_fn call did
    ppc,                       \* position of the producer
    enqueued,                  \* enqueue calls that have returned
    sentinels,                 \* None items close_and_wait has put
    calls                      \* outcomes of the close_and_wait calls

queueVars == <<impl, workers, ntiles, file, states, queued, permits, closed,
               uploaded_count, errors, thread, item, result, ppc, enqueued,
               sentinels, calls>>

\* One call of upload_tiles_parallel and the threads of its executor.
VARIABLES
    max_workers,               \* max_workers of the call
    ntiles_put,                \* len(tiles)
    futures,                   \* tile -> state of its future
    submitted,                 \* how many futures the loop has submitted
    active_uploads,            \* active_uploads of the call
    notified,                  \* tile -> number of on_tile_uploaded calls
    completed,                 \* the tiles in the order their futures ended
    collected,                 \* how many futures as_completed has yielded
    raised_for,                \* the tile whose error future.result() raised
    upc                        \* position of the caller

putVars == <<max_workers, ntiles_put, futures, submitted, active_uploads,
             notified, completed, collected, raised_for, upc>>

\* The tile event log of one render, the threads that append to it and a
\* client that pages through it.
VARIABLES
    backend,                   \* which storage backend holds the log
    log,                       \* the lines of tile_events.ndjson
    append_lock,               \* which thread holds _append_lock
    epc,                       \* tile -> position of the thread handling it
    existing_content,          \* tile -> existing_content of its append call
    call_order,                \* the tiles in the order enqueue was called
    lock_order,                \* the payloads in the order of _append_lock
    unwritten,                 \* the payloads whose append call has not written
    returned,                  \* append_jsonl calls that have returned
    pager_cursor,              \* the cursor the client holds
    pages                      \* the events the client has received

logVars == <<backend, log, append_lock, epc, existing_content, call_order,
             lock_order, unwritten, returned, pager_cursor, pages>>

\* The scene of one client, the render requests for it, and the values the
\* request validators are called with.
VARIABLES
    ctx,                       \* what resolve_scene_context returned
    requested,                 \* the selection of the latest render request
    build_str,                 \* build_str of the latest render request
    tile_cache,                \* build string -> the composite its tiles show
    served,                    \* the composite the latest response points to
    renders,                   \* how many render requests have been answered
    build_input,               \* a value a client sends as {build}
    validated,                 \* the value validate_build_string was given
    verdict,                   \* what validate_build_string did with it
    payload_ids,               \* client and scene of a POST /api/render
    http,                      \* what the id validation of that request did
    config_loaded              \* whether load_client_config was called

bsVars == <<ctx, requested, build_str, tile_cache, served, renders,
            build_input, validated, verdict, payload_ids, http,
            config_loaded>>

\* One call of process_cubemap_to_memory.
VARIABLES
    split_impl,                \* which of the two split_faces_cubemap modules
    split_input,               \* face size, tile_size, min_lod, max_lod
    split_pc,                  \* position of the call
    split_faces,               \* the list `faces`
    lod_index,                 \* how many entries of lod_sizes the loop has seen
    split_out                  \* the list `tiles`

splitVars == <<split_impl, split_input, split_pc, split_faces, lod_index,
               split_out>>

\* The map render_locks, the lock objects made for it and their callers.
VARIABLES
    lru_map,                   \* render_locks: (key, lock) from oldest to newest
    lru_made,                  \* how many threading.Lock objects were made
    lru_pc,                    \* caller -> position
    lru_key,                   \* caller -> render_key
    lru_lock,                  \* caller -> the lock _get_render_lock returned
    lru_holder,                \* lock -> the caller inside `with render_lock`
    lru_used,                  \* key -> when _get_render_lock last saw it
    lru_calls,                 \* how many _get_render_lock calls have returned
    lru_last                   \* the key of the latest call

lruVars == <<lru_map, lru_made, lru_pc, lru_key, lru_lock, lru_holder,
             lru_used, lru_calls, lru_last>>

\* The state of the components the render controller's steps leave alone.
auxVars == <<regVars, queueVars, putVars, logVars, bsVars, splitVars, lruVars>>

vars == <<ctlVars, BUILD_STATUS, auxVars>>

\* ------------------------------------------------------------ pure helpers
Min(a, b) == IF a < b THEN a ELSE b
Max(a, b) == IF a > b THEN a ELSE b

\* A progress value n/d; 0.0 is <<0, 1>> and 1.0 is <<1, 1>>.
Zero == <<0, 1>>
One == <<1, 1>>
RatEq(p, q) == p[1] * q[2] = q[1] * p[2]

NoMeta == [status |-> "absent", tiles_count |-> -1]

\* The tiles manifest and the responses of POST /api/render
\* (server.py:556-567, 677-686, 473-476).
tiles_manifest(k) ==
    [baseUrl |-> "public", tileRoot |-> k, pattern |-> BuildOf(k),
     build |-> BuildOf(k)]
NoResponse == [code |-> 0, status |-> "none"]
TooManyRequests == [code |-> 429, status |-> "none"]
Cached(k) ==
    [code |-> 200, status |-> "cached", build |-> BuildOf(k),
     tiles |-> tiles_manifest(k)]
Processing(k) ==
    [code |-> 202, status |-> "processing", build |-> BuildOf(k),
     tiles |-> tiles_manifest(k)]

\* ------------------------------------------------- build-status registry
default_build_state ==
    [status |-> "processing", tiles_uploaded |-> 0,
     tiles_total |-> DEFAULT_TILES_TOTAL, progress |-> Zero,
     percent_complete |-> Zero, faces_ready |-> FALSE, tiles_ready |-> FALSE,
     lod_ready |-> -1, error |-> "None"]

\* dict.update: the fields of extra replace or extend those of cur.
Merge(cur, extra) ==
    [f \in DOMAIN cur \cup DOMAIN extra |->
        IF f \in DOMAIN extra THEN extra[f] ELSE cur[f]]

\* BUILD_STATUS.get(build, _default_build_state())
GetBuildState(bs, build) ==
    IF build \in DOMAIN bs THEN bs[build] ELSE default_build_state

PutBuildState(bs, build, rec) ==
    [b \in DOMAIN bs \cup {build} |-> IF b = build THEN rec ELSE bs[b]]

set_build_status(bs, build, status, extra) ==
    LET current == Merge(GetBuildState(bs, build),
                         Merge([status |-> status], extra))
        fixed == IF "progress" \in DOMAIN current
                    /\ "percent_complete" \notin DOMAIN extra
                 THEN Merge(current, [percent_complete |-> current.progress])
                 ELSE current
    IN PutBuildState(bs, build, fixed)

\* What _increment_build_tiles_uploaded makes of its local copy of the
\* record (server.py:144-149).
bump_tiles_uploaded(cur) ==
    LET bumped == (IF "tiles_uploaded" \in DOMAIN cur
                   THEN cur.tiles_uploaded ELSE 0) + 1
        tiles_total == Max(0, IF "tiles_total" \in DOMAIN cur
                              THEN cur.tiles_total ELSE 0)
        capped == Min(bumped, tiles_total)
    IN IF tiles_total > 0
       THEN Merge(cur, [tiles_uploaded |-> capped,
                        progress |-> <<capped, tiles_total>>,
                        percent_complete |-> <<capped, tiles_total>>])
       ELSE Merge(cur, [tiles_uploaded |-> bumped])

\* _increment_build_tiles_uploaded as one step under BUILD_LOCK.
increment_build_tiles_uploaded(bs, build) ==
    PutBuildState(bs, build, bump_tiles_uploaded(GetBuildState(bs, build)))

\* The on_tile_uploaded callback run n times, once per put that succeeded:
\* the first call as written, the n - 1 that follow it summed up.
IncrementTimes(bs, build, n) ==
    IF n = 0 THEN bs
    ELSE LET first == increment_build_tiles_uploaded(bs, build)
             current == first[build]
             tiles_total == Max(0, IF "tiles_total" \in DOMAIN current
                                   THEN current.tiles_total ELSE 0)
             uploaded == current.tiles_uploaded + (n - 1)
             capped == Min(uploaded, tiles_total)
         IN IF n = 1 THEN first
            ELSE IF tiles_total > 0
            THEN PutBuildState(first, build,
                     Merge(current, [tiles_uploaded |-> capped,
                                     progress |-> <<capped, tiles_total>>,
                                     percent_complete |-> <<capped, tiles_total>>]))
            ELSE PutBuildState(first, build,
                     Merge(current, [tiles_uploaded |-> uploaded]))

\* ------------------------------------------------------ cubemap splitter
NoMaxLod == -1

\* lod_sizes of process_cubemap_to_memory: the target face size of each LOD.
lod_sizes(face_size, tile_size) ==
    (IF tile_size * 2 <= face_size THEN <<face_size \div 2>> ELSE <<>>)
    \o (IF tile_size <= face_size THEN <<face_size>> ELSE <<>>)

\* _process_face_to_tiles: cols x rows tiles for one face.
process_face_to_tiles(target_size, lod_tile_size) ==
    (target_size \div lod_tile_size) * (target_size \div lod_tile_size)

\* process_cubemap_to_memory, as the number of tiles it returns for LOD 0
\* and for LOD 1 (six faces each).
process_cubemap_to_memory(face_size, tile_size, min_lod, max_lod) ==
    LET sizes == lod_sizes(face_size, tile_size)
        final_lod == IF max_lod = NoMaxLod THEN Len(sizes) - 1
                     ELSE Min(max_lod, Len(sizes) - 1)
        count(lod) == IF lod + 1 > Len(sizes) \/ lod < min_lod \/ lod > final_lod
                      THEN 0
                      ELSE 6 * process_face_to_tiles(sizes[lod + 1], tile_size)
    IN IF final_lod < min_lod THEN <<0, 0>> ELSE <<count(0), count(1)>>

\* ---------------------------------------------------------- object store
exists(k) == meta[k] # NoMeta

\* Outcomes of upload_tiles_parallel on n tiles: the number of puts that
\* succeeded; fewer than n means the call raised.
UploadOutcomes(n) == IF n = 0 THEN {0} ELSE {0, n - 1, n}

\* The store after m puts of a batch of <<c0, c1>> tiles succeeded.
StoreAfterPuts(old, batch, m) ==
    LET s0 == Min(m, batch[1])
        s1 == m - s0
    IN <<Max(old[1], s0), Max(old[2], s1)>>

\* ---------------------------------------------------------------- Init
NoRecord == [status |-> "none"]

\* ------------------------------------------------------ TileUploadQueue
\* The in-flight bound of the queue: 256 in the source, scaled down.
InFlightBound == 2

Tiles == 1..MaxTiles
NoTile == 0
\* The None item that tells a worker thread of the queue.Queue class to end.
Sentinel == -1
Pool == 1..MaxPool
Impls == {"queue", "executor"}
Returned == [raised |-> FALSE, failed |-> 0]
Raised(n) == [raised |-> TRUE, failed |-> n]

\* A TileUploadQueue after start(), for a producer with n tiles on disk.
InitQueue(i, w, n) ==
    /\ impl = i
    /\ workers = w
    /\ ntiles = n
    /\ file = [t \in Tiles |-> t <= n]
    /\ states = [t \in Tiles |-> "none"]
    /\ queued = <<>>
    /\ permits = InFlightBound
    /\ closed = FALSE
    /\ uploaded_count = 0
    /\ errors = 0
    /\ thread = [p \in Pool |-> IF p <= w THEN "idle" ELSE "off"]
    /\ item = [p \in Pool |-> NoTile]
    /\ result = [t \in Tiles |-> "none"]
    /\ ppc = "ready"
    /\ enqueued = 0
    /\ sentinels = 0
    /\ calls = <<>>

\* ------------------------------------------------ upload_tiles_parallel
\* upload_tiles_parallel called with n tiles and w workers, before the
\* first submit.
InitPut(w, n) ==
    /\ max_workers = w
    /\ ntiles_put = n
    /\ futures = [t \in Tiles |-> "none"]
    /\ submitted = 0
    /\ active_uploads = 0
    /\ notified = [t \in Tiles |-> 0]
    /\ completed = <<>>
    /\ collected = 0
    /\ raised_for = NoTile
    /\ upc = "submit"

\* ------------------------------------------------- tile_events.ndjson
LogTiles == 1..MaxLogTiles
Backends == {"local", "r2"}

\* An empty event log on backend b, no tile generated yet.
InitLog(b) ==
    /\ backend = b
    /\ log = <<>>
    /\ append_lock = NoTile
    /\ epc = [t \in LogTiles |-> "idle"]
    /\ existing_content = [t \in LogTiles |-> <<>>]
    /\ call_order = <<>>
    /\ lock_order = <<>>
    /\ unwritten = {}
    /\ returned = 0
    /\ pager_cursor = 0
    /\ pages = <<>>

\* ------------------------------------------------- the build string
CONFIG_STRING_BASE == 36
FIXED_LAYERS == 5
SCENE_CHARS == 2
LAYER_CHARS == 2
BUILD_TOTAL == SCENE_CHARS + FIXED_LAYERS * LAYER_CHARS
BUILD_LEN == 12

\* A str is the sequence of its characters.
chars == <<"0", "1", "2", "3", "4", "5", "6", "7", "8", "9", "a", "b", "c",
           "d", "e", "f", "g", "h", "i", "j", "k", "l", "m", "n", "o", "p",
           "q", "r", "s", "t", "u", "v", "w", "x", "y", "z">>

\* A value of a JSON payload or of a URL: a str, or something else.
Str(s) == [type |-> "str", s |-> s]
NotAString == [type |-> "int", s |-> <<>>]
NoValue == [type |-> "none", s |-> <<>>]
HTTPException(code) == [type |-> "HTTPException", s |-> <<ToString(code)>>]

\* The ids of the layers of a scene, of the items of a layer, an item id no
\* layer has, and what selection.get returns for a missing key.
LayerIds == 1..MaxLayers
ItemIds == {1, 2}
UnknownItem == 9
NoSelected == 0
NoItem == [id |-> 0, index |-> 0, file |-> FALSE]

\* The item lists a layer may have: index 0 and 1, an item without a file,
\* and two items that share the last index two characters can hold.
Catalogs ==
    { << [id |-> 1, index |-> 0, file |-> TRUE],
         [id |-> 2, index |-> 1, file |-> TRUE] >>,
      << [id |-> 1, index |-> 1, file |-> TRUE],
         [id |-> 2, index |-> 37, file |-> FALSE] >>,
      << [id |-> 1, index |-> 1295, file |-> TRUE],
         [id |-> 2, index |-> 1295, file |-> TRUE] >> }

BuildOrders == {-1, 0, FIXED_LAYERS - 1, FIXED_LAYERS}
SceneIndexes == {37, 1295}

\* The layer lists of a scene: layer i of the list has id i.
LayerLists ==
    UNION { { [i \in 1..n |-> [id |-> i, build_order |-> o[i],
                               items |-> c[i], mask |-> TRUE]] :
              o \in [1..n -> BuildOrders], c \in [1..n -> Catalogs] } :
            n \in 0..MaxLayers }

Scenes == [scene_index : SceneIndexes, layers : LayerLists]
NoCtx == [scene_index |-> -1, layers |-> <<>>]

\* The selections a render request is accepted with (server.py:487 rejects
\* an empty one): a dict from some layer ids to an item id.
Selections ==
    UNION { [D -> ItemIds \cup {UnknownItem}] : D \in SUBSET LayerIds \ {{}} }

\* selection.get(layer_id)
Get(selection, layer_id) ==
    IF layer_id \in DOMAIN selection THEN selection[layer_id] ELSE NoSelected

\* next((it for it in layer.get("items", []) if it["id"] == selected_id), None)
FindItem(layer, selected_id) ==
    LET hits == {i \in 1..Len(layer.items) : layer.items[i].id = selected_id}
    IN IF hits = {} THEN NoItem
       ELSE layer.items[CHOOSE i \in hits : \A j \in hits : i <= j]

\* str.zfill(width) of a string without a sign.
RECURSIVE zfill(_, _)
zfill(s, width) == IF Len(s) >= width THEN s ELSE zfill(<<"0">> \o s, width)

\* The while loop of base36_encode.
RECURSIVE base36_loop(_)
base36_loop(n) ==
    IF n = 0 THEN <<>>
    ELSE base36_loop(n \div 36) \o <<chars[(n % 36) + 1]>>

base36_encode_unpadded(num, width) ==
    LET digits == base36_loop(num)
    IN IF digits = <<>> THEN <<"0">> ELSE digits

base36_encode(num, width) ==
    LET digits == base36_loop(num)
    IN zfill(IF digits = <<>> THEN <<"0">> ELSE digits, width)

\* layer_values after the first n layers of the loop.
RECURSIVE layer_values(_, _, _)
layer_values(layers, selection, n) ==
    IF n = 0 THEN [k \in 0..(FIXED_LAYERS - 1) |-> 0]
    ELSE LET before == layer_values(layers, selection, n - 1)
             layer == layers[n]
             build_order == layer.build_order
             selected_id == Get(selection, layer.id)
             found == FindItem(layer, selected_id)
         IN IF build_order < 0 \/ build_order >= FIXED_LAYERS THEN before
            ELSE IF selected_id = NoSelected THEN before
            ELSE IF found = NoItem THEN before
            ELSE [before EXCEPT ![build_order] = found.index]

\* "".join of the parts of the slots k..FIXED_LAYERS-1.
RECURSIVE join_parts(_, _)
join_parts(values, k) ==
    IF k >= FIXED_LAYERS THEN <<>>
    ELSE base36_encode(values[k], LAYER_CHARS) \o join_parts(values, k + 1)

build_string_from_selection(scene_index, layers, selection) ==
    base36_encode(scene_index, SCENE_CHARS)
        \o join_parts(layer_values(layers, selection, Len(layers)), 0)

\* sorted(layers, key=build_order): a stable sort.
RECURSIVE sorted_layers(_)
sorted_layers(layers) ==
    IF layers = <<>> THEN <<>>
    ELSE LET n == Len(layers)
             head == sorted_layers(SubSeq(layers, 1, n - 1))
             k == Cardinality({i \in 1..Len(head) :
                      head[i].build_order <= layers[n].build_order})
         IN SubSeq(head, 1, k) \o <<layers[n]>> \o SubSeq(head, k + 1, Len(head))

\* The (layer, item) materials the loop of stack_layers_image_only blends
\* over the base image, in the order it blends them, for the first n layers
\* of the sorted list.
RECURSIVE blended(_, _, _)
blended(ordered, selection, n) ==
    IF n = 0 THEN <<>>
    ELSE LET before == blended(ordered, selection, n - 1)
             layer == ordered[n]
             item_id == Get(selection, layer.id)
             found == FindItem(layer, item_id)
         IN IF item_id = NoSelected THEN before
            ELSE IF found = NoItem THEN before
            ELSE IF ~found.file \/ ~layer.mask THEN before
            ELSE Append(before, <<layer.id, found.id>>)

stack_layers_image_only(layers, selection) ==
    blended(sorted_layers(layers), selection, Len(layers))

\* ------------------------------------------------- the request validators
Alnum == {chars[i] : i \in 1..Len(chars)}

\* BUILD_REGEX.match(s): $ matches at the end and before a final newline.
BUILD_REGEX(s) ==
    /\ Len(s) >= 12
    /\ \A i \in 1..12 : s[i] \in Alnum
    /\ \/ Len(s) = 12
       \/ Len(s) = 13 /\ s[13] = "\n"

validate_build_string_any_length(build) ==
    IF build.type # "str" THEN HTTPException(400)
    ELSE IF ~BUILD_REGEX(build.s) THEN HTTPException(400)
    ELSE build

validate_build_string(build) ==
    IF build.type # "str" THEN HTTPException(400)
    ELSE IF Len(build.s) # BUILD_LEN THEN HTTPException(400)
    ELSE IF ~BUILD_REGEX(build.s) THEN HTTPException(400)
    ELSE build

\* The whole of s is [a-z0-9]([a-z0-9\-]{0,62}[a-z0-9])?
SafeIdBody(s) ==
    /\ Len(s) >= 1
    /\ Len(s) <= 64
    /\ s[1] \in Alnum
    /\ s[Len(s)] \in Alnum
    /\ \A i \in 1..Len(s) : s[i] \in Alnum \cup {"-"}

\* SAFE_ID_REGEX.match(s): $ matches at the end and before a final newline.
SAFE_ID_REGEX(s) ==
    \/ SafeIdBody(s)
    \/ /\ Len(s) >= 1
       /\ s[Len(s)] = "\n"
       /\ SafeIdBody(SubSeq(s, 1, Len(s) - 1))

Contains(s, c) == \E i \in 1..Len(s) : s[i] = c
ContainsDotDot(s) == \E i \in 1..(Len(s) - 1) : s[i] = "." /\ s[i + 1] = "."

validate_safe_id(value) ==
    IF value.type # "str" \/ value.s = <<>> THEN HTTPException(400)
    ELSE IF ContainsDotDot(value.s) \/ Contains(value.s, "/")
            \/ Contains(value.s, "\\")
         THEN HTTPException(400)
    ELSE IF ~SAFE_ID_REGEX(value.s) THEN HTTPException(400)
    ELSE value

\* The strings of n characters c.
RECURSIVE Fill(_, _)
Fill(n, c) == IF n = 0 THEN <<>> ELSE <<c>> \o Fill(n - 1, c)

\* The values a client sends as {build}: strings of 0, 11, 12 and 13
\* characters of [0-9a-z], the same with one other character at either end,
\* the values of the repository's tests, and a value that is not a string.
OtherChars == {"A", "-", ".", "/", "\\", "\n", "_", " "}
BuildValues ==
    LET plain == {Fill(n, c) : n \in {0, 11, 12, 13}, c \in {"0", "z"}}
        marked == UNION { {<<c>> \o s, s \o <<c>>} :
                          s \in {Fill(n, "0") : n \in {11, 12}},
                          c \in OtherChars }
        tests == { <<"0", "a", "1", "b", "2", "c", "3", "d", "4", "e", "5", "f">>,
                   <<"0", "A", "1", "B", "2", "C", "3", "D", "4", "E", "5", "F">>,
                   <<".", ".", "/", ".", ".", "/", ".", ".", "/", "e", "t", "c">>,
                   <<"a", "b", "c">> }
    IN {Str(s) : s \in plain \cup marked \cup tests} \cup {NotAString}

\* The client and scene ids of a POST /api/render: one of the two is any
\* string of up to MaxIdLen characters, or not a string.
IdChars == {"a", "0", "-", ".", "/", "\\", "A", "\n"}
IdValues ==
    {Str(s) : s \in UNION {[1..n -> IdChars] : n \in 0..MaxIdLen}}
        \cup {NotAString}
NoIds == [client |-> NoValue, scene |-> NoValue]
IdPairs ==
    {[client |-> v, scene |-> Str(<<"a">>)] : v \in IdValues}
        \cup {[client |-> Str(<<"a">>), scene |-> v] : v \in IdValues}

\* Before any request: the scene c, the {build} value v and the ids p.
InitBuild(c, v, p) ==
    /\ ctx = c
    /\ requested = <<>>
    /\ build_str = <<>>
    /\ tile_cache = <<>>
    /\ served = <<>>
    /\ renders = 0
    /\ build_input = v
    /\ validated = NoValue
    /\ verdict = NoValue
    /\ payload_ids = p
    /\ http = 0
    /\ config_loaded = FALSE

\* ------------------------------------------- process_cubemap_to_memory
STRIP_FACES == <<"px", "nx", "py", "ny", "pz", "nz">>
MARZIPANO_FACE_MAP ==
    [px |-> "r", nx |-> "l", py |-> "u", ny |-> "d", pz |-> "f", nz |-> "b"]

\* LOD_CONFIGS of src/render/split_faces_cubemap.py: (face size, tile size).
LOD_CONFIGS == <<<<1024, 512>>, <<2048, 512>>>>

SplitImpls == {"package", "render"}
SplitFaceSizes == {256, 512, 1024, 2048}
SplitInputs ==
    [face_size : SplitFaceSizes, tile_size : {TILE_SIZE},
     min_lod : {-1, 0, 1}, max_lod : {NoMaxLod, 0, 1}]
NoSplitInput ==
    [face_size |-> 2048, tile_size |-> TILE_SIZE, min_lod |-> 0,
     max_lod |-> NoMaxLod]
SplitBuild == "000804000000"

\* lod_sizes of process_cubemap_to_memory in module m: (target size, tile
\* size) per LOD.
split_lod_sizes(m, face_size, tile_size) ==
    IF m = "render" THEN LOD_CONFIGS
    ELSE LET sizes == lod_sizes(face_size, tile_size)
         IN [i \in 1..Len(sizes) |-> <<sizes[i], tile_size>>]

final_lod_of(sizes, max_lod) ==
    IF max_lod = NoMaxLod THEN Len(sizes) - 1 ELSE Min(max_lod, Len(sizes) - 1)

\* The loop over STRIP_FACES with every face published under its own letter.
extract_faces_unswapped(strip_faces) ==
    [i \in 1..Len(strip_faces) |->
        LET face_key == strip_faces[i]
        IN IF face_key = "py"
           THEN [source |-> face_key, rot |-> 270,
                 face |-> MARZIPANO_FACE_MAP["py"]]
           ELSE IF face_key = "ny"
           THEN [source |-> face_key, rot |-> 90,
                 face |-> MARZIPANO_FACE_MAP["ny"]]
           ELSE [source |-> face_key, rot |-> 0,
                 face |-> MARZIPANO_FACE_MAP[face_key]]]

\* The loop over STRIP_FACES: the image of each face, as the face of the
\* strip it was cut from and the rotation applied, and its published letter.
extract_faces(strip_faces) ==
    [i \in 1..Len(strip_faces) |->
        LET face_key == strip_faces[i]
        IN IF face_key = "py"
           THEN [source |-> face_key, rot |-> 270,
                 face |-> MARZIPANO_FACE_MAP["ny"]]
           ELSE IF face_key = "ny"
           THEN [source |-> face_key, rot |-> 90,
                 face |-> MARZIPANO_FACE_MAP["py"]]
           ELSE [source |-> face_key, rot |-> 0,
                 face |-> MARZIPANO_FACE_MAP[face_key]]]

\* _process_face_to_tiles: the tiles of one face at one LOD, x outermost.
\* A filename is the tuple of the parts its f-string joins with "_".
face_tiles_of(face_data, level, target_size, lod_tile_size, build) ==
    LET cols == target_size \div lod_tile_size
        rows == target_size \div lod_tile_size
    IN [n \in 1..(cols * rows) |->
           [filename |-> <<build, face_data.face, level,
                           (n - 1) \div rows, (n - 1) % rows, ".jpg">>,
            image |-> [source |-> face_data.source, rot |-> face_data.rot],
            lod |-> level]]

\* tiles.extend(face_tiles) over the results of pool.map, in face order.
RECURSIVE extend_faces(_, _, _, _, _, _)
extend_faces(faces, n, level, target_size, lod_tile_size, build) ==
    IF n = 0 THEN <<>>
    ELSE extend_faces(faces, n - 1, level, target_size, lod_tile_size, build)
            \o face_tiles_of(faces[n], level, target_size, lod_tile_size, build)

\* Before the call.
InitSplit(m, input) ==
    /\ split_impl = m
    /\ split_input = input
    /\ split_pc = "call"
    /\ split_faces = <<>>
    /\ lod_index = 0
    /\ split_out = <<>>

\* ------------------------------------------------------ render_locks
\* MAX_RENDER_LOCKS, scaled down.
LruCap == 2
LruKeys == 1..MaxKeys
Callers == 1..MaxCallers
NoCaller == 0
LockIds == 1..MaxGets

\* The keys of the map, oldest first.
KeysOf(map) == [i \in 1..Len(map) |-> map[i].key]
HasKey(map, k) == \E i \in 1..Len(map) : map[i].key = k
LockOf(map, k) == map[CHOOSE i \in 1..Len(map) : map[i].key = k].lock

\* while len(render_locks) > MAX_RENDER_LOCKS: popitem(last=False)
RECURSIVE popitems_newest(_)
popitems_newest(map) ==
    IF Len(map) > LruCap THEN popitems_newest(SubSeq(map, 1, Len(map) - 1))
    ELSE map

RECURSIVE popitems(_)
popitems(map) == IF Len(map) > LruCap THEN popitems(Tail(map)) ELSE map

\* _get_render_lock: the map after the call; the lock returned is that of
\* the key in it, or the new lock when the key was evicted at once.
render_locks_after(map, k, new_lock) ==
    IF HasKey(map, k)
    THEN SelectSeq(map, LAMBDA e : e.key # k)
             \o <<[key |-> k, lock |-> LockOf(map, k)]>>
    ELSE popitems(Append(map, [key |-> k, lock |-> new_lock]))

\* Nothing requested yet.
InitLru ==
    /\ lru_map = <<>>
    /\ lru_made = 0
    /\ lru_pc = [c \in Callers |-> "idle"]
    /\ lru_key = [c \in Callers |-> 0]
    /\ lru_lock = [c \in Callers |-> 0]
    /\ lru_holder = [l \in LockIds |-> NoCaller]
    /\ lru_used = [k \in LruKeys |-> 0]
    /\ lru_calls = 0
    /\ lru_last = 0

\* No worker thread is inside _increment_build_tiles_uploaded.
InitWorkers ==
    /\ BUILD_LOCK = NoWorker
    /\ held = [w \in Workers |-> NoRecord]
    /\ wpc = [w \in Workers |-> "idle"]

\* The render controller before the first request, the registry apart.
InitController ==
    /\ clock = MIN_INTERVAL
    /\ last_request_time = 0
    /\ pc = [r \in Reqs |-> "idle"]
    /\ key = [r \in Reqs |-> NoKey]
    /\ now = [r \in Reqs |-> 0]
    /\ resp = [r \in Reqs |-> NoResponse]
    /\ min_lod_for_background = [r \in Reqs |-> 0]
    /\ bg = [r \in Reqs |-> "none"]
    /\ bgResult = [r \in Reqs |-> "none"]
    /\ render_locks = <<>>
    /\ lockHolder = [k \in RenderKeys |-> NoReq]
    /\ guardHolder = NoReq
    /\ active_background_renders = {}
    /\ tiles = [k \in RenderKeys |-> <<0, 0>>]
    /\ meta = [k \in RenderKeys |-> NoMeta]
    /\ tmpFiles = {}
    /\ \E f \in FaceSizes : faceSize = [k \in RenderKeys |-> f]

Init ==
    /\ InitController
    /\ BUILD_STATUS = <<>>
    /\ InitWorkers
    /\ InitQueue("queue", 1, 0)
    /\ InitPut(1, 0)
    /\ InitLog("local")
    /\ InitBuild(NoCtx, NoValue, NoIds)
    /\ InitSplit("package", NoSplitInput)
    /\ InitLru

\* ------------------------------------------------- POST /api/render
\* The request arrives and reads time.monotonic() (server.py:469).
Arrive(r, t) ==
    /\ pc[r] = "idle"
    /\ t \in clock..MaxClock
    /\ clock' = t
    /\ now' = [now EXCEPT ![r] = t]
    /\ \E k \in RenderKeys : key' = [key EXCEPT ![r] = k]
    /\ pc' = [pc EXCEPT ![r] = "rate"]
    /\ UNCHANGED auxVars
    /\ UNCHANGED <<last_request_time, resp, min_lod_for_background, bg, bgResult,
                   render_locks, lockHolder, guardHolder,
                   active_background_renders, BUILD_STATUS, tiles, meta,
                   tmpFiles, faceSize>>

\* The rate limiter with the timestamp stored on a rejection as well.
RateLimitStoresRejected(r) ==
    /\ pc[r] = "rate"
    /\ last_request_time' = now[r]
    /\ IF now[r] - last_request_time < MIN_INTERVAL
       THEN /\ resp' = [resp EXCEPT ![r] = TooManyRequests]
            /\ pc' = [pc EXCEPT ![r] = "done"]
       ELSE /\ pc' = [pc EXCEPT ![r] = "check"]
            /\ UNCHANGED resp
    /\ UNCHANGED auxVars
    /\ UNCHANGED <<clock, key, now, min_lod_for_background, bg, bgResult,
                   render_locks, lockHolder, guardHolder,
                   active_background_renders, BUILD_STATUS, tiles, meta,
                   tmpFiles, faceSize>>

\* The rate limiter with the accepted timestamp not stored.
RateLimitKeepsOldTime(r) ==
    /\ pc[r] = "rate"
    /\ IF now[r] - last_request_time < MIN_INTERVAL
       THEN /\ resp' = [resp EXCEPT ![r] = TooManyRequests]
            /\ pc' = [pc EXCEPT ![r] = "done"]
       ELSE /\ pc' = [pc EXCEPT ![r] = "check"]
            /\ UNCHANGED resp
    /\ UNCHANGED auxVars
    /\ UNCHANGED <<clock, last_request_time, key, now, min_lod_for_background,
                   bg, bgResult, render_locks, lockHolder, guardHolder,
                   active_background_renders, BUILD_STATUS, tiles, meta,
                   tmpFiles, faceSize>>

\* The rate limiter, under `lock` (server.py:470-477).
RateLimit(r) ==
    /\ pc[r] = "rate"
    /\ IF now[r] - last_request_time < MIN_INTERVAL
       THEN /\ resp' = [resp EXCEPT ![r] = TooManyRequests]
            /\ pc' = [pc EXCEPT ![r] = "done"]
            /\ UNCHANGED last_request_time
       ELSE /\ last_request_time' = now[r]
            /\ pc' = [pc EXCEPT ![r] = "check"]
            /\ UNCHANGED resp
    /\ UNCHANGED auxVars
    /\ UNCHANGED <<clock, key, now, min_lod_for_background, bg, bgResult,
                   render_locks, lockHolder, guardHolder,
                   active_background_renders, BUILD_STATUS, tiles, meta,
                   tmpFiles, faceSize>>

\* The first cache check with a hit recorded in the registry.
CacheCheckTouchesRegistry(r) ==
    /\ pc[r] = "check"
    /\ IF exists(key[r])
       THEN /\ resp' = [resp EXCEPT ![r] = Cached(key[r])]
            /\ pc' = [pc EXCEPT ![r] = "done"]
            /\ BUILD_STATUS' = set_build_status(BUILD_STATUS, BuildOf(key[r]),
                   "cached", [tile_root |-> key[r]])
       ELSE /\ pc' = [pc EXCEPT ![r] = "getlock"]
            /\ UNCHANGED <<resp, BUILD_STATUS>>
    /\ UNCHANGED auxVars
    /\ UNCHANGED <<clock, last_request_time, key, now, min_lod_for_background,
                   bg, bgResult, render_locks, lockHolder, guardHolder,
                   active_background_renders, tiles, meta, tmpFiles, faceSize>>

\* The first cache check (server.py:550-567).
CacheCheck(r) ==
    /\ pc[r] = "check"
    /\ IF exists(key[r])
       THEN /\ resp' = [resp EXCEPT ![r] = Cached(key[r])]
            /\ pc' = [pc EXCEPT ![r] = "done"]
       ELSE /\ pc' = [pc EXCEPT ![r] = "getlock"]
            /\ UNCHANGED resp
    /\ UNCHANGED auxVars
    /\ UNCHANGED <<clock, last_request_time, key, now, min_lod_for_background,
                   bg, bgResult, render_locks, lockHolder, guardHolder,
                   active_background_renders, BUILD_STATUS, tiles, meta,
                   tmpFiles, faceSize>>

\* OrderedDict.move_to_end / insertion, then eviction from the front.
Without(seq, k) == SelectSeq(seq, LAMBDA x : x # k)
RECURSIVE Evict(_)
Evict(seq) == IF Len(seq) > MAX_RENDER_LOCKS THEN Evict(Tail(seq)) ELSE seq
get_render_lock(locks, k) ==
    IF \E i \in 1..Len(locks) : locks[i] = k
    THEN Append(Without(locks, k), k)
    ELSE Evict(Append(locks, k))

\* _get_render_lock (server.py:572).
GetRenderLock(r) ==
    /\ pc[r] = "getlock"
    /\ render_locks' = get_render_lock(render_locks, key[r])
    /\ pc' = [pc EXCEPT ![r] = "acquire"]
    /\ UNCHANGED auxVars
    /\ UNCHANGED <<clock, last_request_time, key, now, resp,
                   min_lod_for_background, bg, bgResult, lockHolder,
                   guardHolder, active_background_renders, BUILD_STATUS, tiles,
                   meta, tmpFiles, faceSize>>

\* `with render_lock:` entered (server.py:573).
AcquireRenderLock(r) ==
    /\ pc[r] = "acquire"
    /\ lockHolder[key[r]] = NoReq
    /\ lockHolder' = [lockHolder EXCEPT ![key[r]] = r]
    /\ pc' = [pc EXCEPT ![r] = "recheck"]
    /\ UNCHANGED auxVars
    /\ UNCHANGED <<clock, last_request_time, key, now, resp,
                   min_lod_for_background, bg, bgResult, render_locks,
                   guardHolder, active_background_renders, BUILD_STATUS, tiles,
                   meta, tmpFiles, faceSize>>

\* The re-check under the render lock (server.py:574-585).
Recheck(r) ==
    /\ pc[r] = "recheck"
    /\ IF exists(key[r])
       THEN /\ resp' = [resp EXCEPT ![r] = Cached(key[r])]
            /\ pc' = [pc EXCEPT ![r] = "done"]
            /\ lockHolder' = [lockHolder EXCEPT ![key[r]] = NoReq]
       ELSE /\ pc' = [pc EXCEPT ![r] = "admit"]
            /\ UNCHANGED <<resp, lockHolder>>
    /\ UNCHANGED auxVars
    /\ UNCHANGED <<clock, last_request_time, key, now, min_lod_for_background,
                   bg, bgResult, render_locks, guardHolder,
                   active_background_renders, BUILD_STATUS, tiles, meta,
                   tmpFiles, faceSize>>

\* Admission under active_background_guard (server.py:587-603); a request
\* whose key is already active leaves both locks and answers 202 processing
\* (server.py:677-686).
Admit(r) ==
    /\ pc[r] = "admit"
    /\ guardHolder = NoReq
    /\ IF key[r] \in active_background_renders
       THEN /\ resp' = [resp EXCEPT ![r] = Processing(key[r])]
            /\ pc' = [pc EXCEPT ![r] = "done"]
            /\ lockHolder' = [lockHolder EXCEPT ![key[r]] = NoReq]
            /\ UNCHANGED <<guardHolder, active_background_renders,
                           BUILD_STATUS, min_lod_for_background>>
       ELSE /\ active_background_renders' =
                   active_background_renders \cup {key[r]}
            /\ BUILD_STATUS' = set_build_status(BUILD_STATUS, BuildOf(key[r]),
                   "processing",
                   [tile_root |-> key[r], tiles_uploaded |-> 0,
                    tiles_total |-> DEFAULT_TILES_TOTAL, progress |-> Zero,
                    percent_complete |-> Zero, faces_ready |-> FALSE,
                    tiles_ready |-> FALSE, lod_ready |-> -1, error |-> "None"])
            /\ min_lod_for_background' =
                   [min_lod_for_background EXCEPT ![r] = 0]
            /\ guardHolder' = r
            /\ pc' = [pc EXCEPT ![r] = "lod0"]
            /\ UNCHANGED <<resp, lockHolder>>
    /\ UNCHANGED auxVars
    /\ UNCHANGED <<clock, last_request_time, key, now, bg, bgResult,
                   render_locks, tiles, meta, tmpFiles, faceSize>>

\* background_tasks.add_task, the release of both locks and the 202
\* response (server.py:665-686).
ScheduleAndReturn(r, bs, lod) ==
    /\ BUILD_STATUS' = bs
    /\ min_lod_for_background' = [min_lod_for_background EXCEPT ![r] = lod]
    /\ bg' = [bg EXCEPT ![r] = "start"]
    /\ guardHolder' = NoReq
    /\ lockHolder' = [lockHolder EXCEPT ![key[r]] = NoReq]
    /\ resp' = [resp EXCEPT ![r] = Processing(key[r])]
    /\ pc' = [pc EXCEPT ![r] = "done"]

\* The except branch of the LOD0 phase marking the build as failed.
Lod0SyncFailedAsError(bs, k) ==
    set_build_status(bs, BuildOf(k), "error",
        [tile_root |-> k, faces_ready |-> FALSE, tiles_ready |-> FALSE,
         lod_ready |-> -1, error |-> "lod0_sync_failed"])

\* The except branch of the synchronous LOD0 phase (server.py:654-664).
Lod0SyncFailed(bs, k) ==
    set_build_status(bs, BuildOf(k), "processing",
        [tile_root |-> k, faces_ready |-> FALSE, tiles_ready |-> FALSE,
         lod_ready |-> -1, error |-> "lod0_sync_failed"])

\* Compositing and splitting of LOD0 (server.py:605-638); either may raise.
Lod0Render(r) ==
    /\ pc[r] = "lod0"
    /\ LET k == key[r]
           lod0_tiles == process_cubemap_to_memory(faceSize[k], TILE_SIZE, 0, 0)
           lod0_total == lod0_tiles[1] + lod0_tiles[2]
       IN \E raised \in BOOLEAN :
            IF raised
            THEN /\ ScheduleAndReturn(r, Lod0SyncFailed(BUILD_STATUS, k), 0)
                 /\ UNCHANGED <<tiles>>
            ELSE IF lod0_total > 0
            THEN /\ BUILD_STATUS' = set_build_status(BUILD_STATUS, BuildOf(k),
                        "uploading",
                        [tile_root |-> k, tiles_uploaded |-> 0,
                         tiles_total |-> Max(DEFAULT_TILES_TOTAL, lod0_total),
                         progress |-> Zero, percent_complete |-> Zero,
                         faces_ready |-> FALSE, tiles_ready |-> FALSE,
                         lod_ready |-> -1, error |-> "None"])
                 /\ pc' = [pc EXCEPT ![r] = "upload0"]
                 /\ UNCHANGED <<min_lod_for_background, bg, guardHolder,
                                lockHolder, resp, tiles>>
            ELSE /\ ScheduleAndReturn(r, BUILD_STATUS, 0)
                 /\ UNCHANGED <<tiles>>
    /\ UNCHANGED auxVars
    /\ UNCHANGED <<clock, last_request_time, key, now, bgResult, render_locks,
                   active_background_renders, meta, tmpFiles, faceSize>>

\* The LOD0 upload followed by a metadata.json with status processing.
Lod0UploadWritesMetadata(r) ==
    /\ pc[r] = "upload0"
    /\ LET k == key[r]
           lod0_tiles == process_cubemap_to_memory(faceSize[k], TILE_SIZE, 0, 0)
           lod0_total == lod0_tiles[1] + lod0_tiles[2]
       IN \E m \in UploadOutcomes(lod0_total) :
            LET counted == IncrementTimes(BUILD_STATUS, BuildOf(k), m)
            IN /\ tiles' = [tiles EXCEPT ![k] = StoreAfterPuts(@, lod0_tiles, m)]
               /\ IF m = lod0_total
                  THEN /\ ScheduleAndReturn(r,
                              set_build_status(counted, BuildOf(k), "processing",
                                  [tile_root |-> k, faces_ready |-> TRUE,
                                   tiles_ready |-> TRUE, lod_ready |-> 0,
                                   error |-> "None"]),
                              1)
                       /\ meta' = [meta EXCEPT ![k] =
                              [status |-> "processing", tiles_count |-> m]]
                  ELSE /\ ScheduleAndReturn(r, Lod0SyncFailed(counted, k), 0)
                       /\ UNCHANGED meta
    /\ UNCHANGED auxVars
    /\ UNCHANGED <<clock, last_request_time, key, now, bgResult, render_locks,
                   active_background_renders, tmpFiles, faceSize>>

\* upload_tiles_parallel of the LOD0 tiles and what follows it
\* (server.py:639-686).
Lod0Upload(r) ==
    /\ pc[r] = "upload0"
    /\ LET k == key[r]
           lod0_tiles == process_cubemap_to_memory(faceSize[k], TILE_SIZE, 0, 0)
           lod0_total == lod0_tiles[1] + lod0_tiles[2]
       IN \E m \in UploadOutcomes(lod0_total) :
            LET counted == IncrementTimes(BUILD_STATUS, BuildOf(k), m)
            IN /\ tiles' = [tiles EXCEPT ![k] = StoreAfterPuts(@, lod0_tiles, m)]
               /\ IF m = lod0_total
                  THEN ScheduleAndReturn(r,
                           set_build_status(counted, BuildOf(k), "processing",
                               [tile_root |-> k, faces_ready |-> TRUE,
                                tiles_ready |-> TRUE, lod_ready |-> 0,
                                error |-> "None"]),
                           1)
                  ELSE ScheduleAndReturn(r, Lod0SyncFailed(counted, k), 0)
    /\ UNCHANGED auxVars
    /\ UNCHANGED <<clock, last_request_time, key, now, bgResult, render_locks,
                   active_background_renders, meta, tmpFiles, faceSize>>

\* -------------------------------------------- _render_build_background
\* The start of the background task announcing an upload at once.
BgStartedAsUploading(bs, k) ==
    set_build_status(bs, BuildOf(k), "uploading",
        [tiles_uploaded |-> 0, tiles_total |-> DEFAULT_TILES_TOTAL,
         progress |-> Zero, error |-> "None"])

\* The registry when the background task starts (server.py:167-175).
BgStarted(bs, k) ==
    set_build_status(bs, BuildOf(k), "processing",
        [tiles_uploaded |-> 0, tiles_total |-> DEFAULT_TILES_TOTAL,
         progress |-> Zero, error |-> "None"])

\* The tiles the background task generates (server.py:189-202).
BgTiles(r) ==
    process_cubemap_to_memory(faceSize[key[r]], TILE_SIZE,
                              min_lod_for_background[r], NoMaxLod)

\* The start of the task, then config load, compositing and splitting
\* (server.py:165-211); any of the three may raise.
BgRender(r) ==
    /\ bg[r] = "start"
    /\ \E raised \in BOOLEAN :
         IF raised
         THEN /\ bg' = [bg EXCEPT ![r] = "error"]
              /\ BUILD_STATUS' = BgStarted(BUILD_STATUS, key[r])
         ELSE /\ BUILD_STATUS' = set_build_status(
                     BgStarted(BUILD_STATUS, key[r]),
                     BuildOf(key[r]), "uploading",
                     [tile_root |-> key[r], tiles_uploaded |-> 0,
                      tiles_total |-> BgTiles(r)[1] + BgTiles(r)[2],
                      progress |-> Zero, error |-> "None"])
              /\ bg' = [bg EXCEPT ![r] = "upload"]
    /\ UNCHANGED auxVars
    /\ UNCHANGED <<clock, last_request_time, pc, key, now, resp,
                   min_lod_for_background, bgResult, render_locks, lockHolder,
                   guardHolder, active_background_renders, tiles, meta,
                   tmpFiles, faceSize>>

\* The background upload with a failed put not raised to the caller.
BgUploadIgnoresFailure(r) ==
    /\ bg[r] = "upload"
    /\ LET k == key[r]
           tiles_total == BgTiles(r)[1] + BgTiles(r)[2]
       IN \E m \in UploadOutcomes(tiles_total) :
            /\ tiles' = [tiles EXCEPT ![k] = StoreAfterPuts(@, BgTiles(r), m)]
            /\ BUILD_STATUS' = IncrementTimes(BUILD_STATUS, BuildOf(k), m)
            /\ bg' = [bg EXCEPT ![r] = "tmp"]
    /\ UNCHANGED auxVars
    /\ UNCHANGED <<clock, last_request_time, pc, key, now, resp,
                   min_lod_for_background, bgResult, render_locks, lockHolder,
                   guardHolder, active_background_renders, meta, tmpFiles,
                   faceSize>>

\* upload_tiles_parallel of the background tiles (server.py:212-220).
BgUpload(r) ==
    /\ bg[r] = "upload"
    /\ LET k == key[r]
           tiles_total == BgTiles(r)[1] + BgTiles(r)[2]
       IN \E m \in UploadOutcomes(tiles_total) :
            /\ tiles' = [tiles EXCEPT ![k] = StoreAfterPuts(@, BgTiles(r), m)]
            /\ BUILD_STATUS' = IncrementTimes(BUILD_STATUS, BuildOf(k), m)
            /\ bg' = [bg EXCEPT ![r] = IF m = tiles_total THEN "tmp" ELSE "error"]
    /\ UNCHANGED auxVars
    /\ UNCHANGED <<clock, last_request_time, pc, key, now, resp,
                   min_lod_for_background, bgResult, render_locks, lockHolder,
                   guardHolder, active_background_renders, meta, tmpFiles,
                   faceSize>>

\* The metadata payload is dumped to a temp file (server.py:222-233).
BgTmp(r) ==
    /\ bg[r] = "tmp"
    /\ tmpFiles' = tmpFiles \cup {r}
    /\ bg' = [bg EXCEPT ![r] = "meta"]
    /\ UNCHANGED auxVars
    /\ UNCHANGED <<clock, last_request_time, pc, key, now, resp,
                   min_lod_for_background, bgResult, render_locks, lockHolder,
                   guardHolder, active_background_renders, BUILD_STATUS, tiles,
                   meta, faceSize>>

\* The metadata.json the background task publishes (server.py:222-230).
metadata_payload(r) ==
    [status |-> "ready", tiles_count |-> BgTiles(r)[1] + BgTiles(r)[2]]

\* upload_file of metadata.json; the temp file is removed in the finally
\* (server.py:234-238).
BgMeta(r) ==
    /\ bg[r] = "meta"
    /\ \E raised \in BOOLEAN :
         IF raised
         THEN /\ bg' = [bg EXCEPT ![r] = "error"]
              /\ UNCHANGED meta
         ELSE /\ meta' = [meta EXCEPT ![key[r]] = metadata_payload(r)]
              /\ bg' = [bg EXCEPT ![r] = "completed"]
    /\ tmpFiles' = tmpFiles \ {r}
    /\ UNCHANGED auxVars
    /\ UNCHANGED <<clock, last_request_time, pc, key, now, resp,
                   min_lod_for_background, bgResult, render_locks, lockHolder,
                   guardHolder, active_background_renders, BUILD_STATUS, tiles,
                   faceSize>>

\* server.py:240-254.
BgCompleted(r) ==
    /\ bg[r] = "completed"
    /\ LET tiles_total == BgTiles(r)[1] + BgTiles(r)[2]
       IN BUILD_STATUS' = set_build_status(BUILD_STATUS, BuildOf(key[r]),
              "completed",
              [tile_root |-> key[r], faces_ready |-> TRUE,
               tiles_ready |-> TRUE, lod_ready |-> 1,
               tiles_count |-> tiles_total, tiles_uploaded |-> tiles_total,
               tiles_total |-> tiles_total, progress |-> One,
               percent_complete |-> One, error |-> "None"])
    /\ bgResult' = [bgResult EXCEPT ![r] = "completed"]
    /\ bg' = [bg EXCEPT ![r] = "finally"]
    /\ UNCHANGED auxVars
    /\ UNCHANGED <<clock, last_request_time, pc, key, now, resp,
                   min_lod_for_background, render_locks, lockHolder,
                   guardHolder, active_background_renders, tiles, meta,
                   tmpFiles, faceSize>>

\* The except branch with the failure published in metadata.json.
BgErrorWritesMetadata(r) ==
    /\ bg[r] = "error"
    /\ BUILD_STATUS' = set_build_status(BUILD_STATUS, BuildOf(key[r]),
           "error", [error |-> "exc"])
    /\ meta' = [meta EXCEPT ![key[r]] = [status |-> "error", tiles_count |-> 0]]
    /\ bgResult' = [bgResult EXCEPT ![r] = "error"]
    /\ bg' = [bg EXCEPT ![r] = "finally"]
    /\ UNCHANGED auxVars
    /\ UNCHANGED <<clock, last_request_time, pc, key, now, resp,
                   min_lod_for_background, render_locks, lockHolder,
                   guardHolder, active_background_renders, tiles, tmpFiles,
                   faceSize>>

\* The except branch (server.py:255-259).
BgError(r) ==
    /\ bg[r] = "error"
    /\ BUILD_STATUS' = set_build_status(BUILD_STATUS, BuildOf(key[r]),
           "error", [error |-> "exc"])
    /\ bgResult' = [bgResult EXCEPT ![r] = "error"]
    /\ bg' = [bg EXCEPT ![r] = "finally"]
    /\ UNCHANGED auxVars
    /\ UNCHANGED <<clock, last_request_time, pc, key, now, resp,
                   min_lod_for_background, render_locks, lockHolder,
                   guardHolder, active_background_renders, tiles, meta,
                   tmpFiles, faceSize>>

\* The finally branch with the render key discarded after a success only.
BgFinallyOnSuccessOnly(r) ==
    /\ bg[r] = "finally"
    /\ guardHolder = NoReq
    /\ active_background_renders' =
           IF bgResult[r] = "completed"
           THEN active_background_renders \ {key[r]}
           ELSE active_background_renders
    /\ bg' = [bg EXCEPT ![r] = "done"]
    /\ UNCHANGED auxVars
    /\ UNCHANGED <<clock, last_request_time, pc, key, now, resp,
                   min_lod_for_background, bgResult, render_locks, lockHolder,
                   guardHolder, BUILD_STATUS, tiles, meta, tmpFiles, faceSize>>

\* The finally branch, under active_background_guard (server.py:260-265).
BgFinally(r) ==
    /\ bg[r] = "finally"
    /\ guardHolder = NoReq
    /\ active_background_renders' = active_background_renders \ {key[r]}
    /\ bg' = [bg EXCEPT ![r] = "done"]
    /\ UNCHANGED auxVars
    /\ UNCHANGED <<clock, last_request_time, pc, key, now, resp,
                   min_lod_for_background, bgResult, render_locks, lockHolder,
                   guardHolder, BUILD_STATUS, tiles, meta, tmpFiles, faceSize>>

\* ------------------------------------------------ GET /api/status/{build}
InvalidBuild == "invalid-build"
NoClient == ""

\* A well-formed build string that no request renders.
UnknownBuild == "b0"

\* The text of the builds of the model.
BuildText(build) ==
    CASE build = InvalidBuild ->
             <<".", ".", "/", ".", ".", "/", ".", ".", "/", "e", "t", "c">>
      [] build = UnknownBuild -> Fill(BUILD_LEN, "z")
      [] OTHER -> Fill(BUILD_LEN, "0")

\* Whether validate_build_string returns for a build of the model.
build_is_valid(build) ==
    validate_build_string(Str(BuildText(build))) # HTTPException(400)

\* get_json(metadata_key); NoMeta stands for FileNotFoundError.
get_json(k) == IF k \in DOMAIN meta THEN meta[k] ELSE NoMeta

status_map(status) ==
    CASE status = "done" -> "completed"
      [] status = "failed" -> "error"
      [] OTHER -> status

StatusKeys == {"tiles_uploaded", "tiles_total", "progress", "percent_complete",
               "faces_ready", "tiles_ready", "lod_ready"}

\* The response built from a registry record (server.py:758-773).
status_response(bs, build) ==
    IF build \notin DOMAIN bs
    THEN [status |-> "idle"]
    ELSE LET state == bs[build]
             status == IF "status" \in DOMAIN state THEN state.status ELSE "idle"
             copied == [f \in StatusKeys \cap DOMAIN state |-> state[f]]
             base == Merge([build |-> build, status |-> status_map(status)],
                           copied)
         IN IF "error" \in DOMAIN state /\ state.error # "None"
            THEN Merge(base, [error |-> state.error])
            ELSE base

\* The metadata probe with a record created for a build without metadata.
status_probe_creates_record(bs, build, k, metadata, read_error) ==
    IF read_error
    THEN set_build_status(bs, build, "error", [error |-> "metadata_read_error"])
    ELSE IF metadata = NoMeta
    THEN set_build_status(bs, build, "processing", [tile_root |-> k])
    ELSE IF metadata.status = "ready"
    THEN set_build_status(bs, build, "completed",
                          [tile_root |-> k, progress |-> One])
    ELSE bs

\* The registry after the metadata probe (server.py:746-756); read_error
\* says that get_json raised something other than FileNotFoundError.
status_probe(bs, build, k, metadata, read_error) ==
    IF read_error
    THEN set_build_status(bs, build, "error", [error |-> "metadata_read_error"])
    ELSE IF metadata = NoMeta
    THEN bs
    ELSE IF metadata.status = "ready"
    THEN set_build_status(bs, build, "completed",
                          [tile_root |-> k, progress |-> One])
    ELSE bs

\* The registry render_status leaves (server.py:732-756).
render_status_registry(bs, build, client, read_error) ==
    IF ~build_is_valid(build)
    THEN bs
    ELSE IF client = NoClient
    THEN bs
    ELSE status_probe(bs, build, <<client, build>>,
                      get_json(<<client, build>>), read_error)

\* What render_status answers (server.py:726-773); read_error says that
\* get_json raised something other than FileNotFoundError.
render_status(bs, build, client, read_error) ==
    IF ~build_is_valid(build)
    THEN [status |-> "idle"]
    ELSE status_response(render_status_registry(bs, build, client, read_error),
                         build)

\* GET /api/status/{build}: what the call leaves in the registry.  A call
\* with an invalid build or without a client changes nothing.
RenderStatus(build, client) ==
    /\ build_is_valid(build)
    /\ client # NoClient
    /\ \E read_error \in BOOLEAN :
          BUILD_STATUS' = render_status_registry(BUILD_STATUS, build, client,
                                                 read_error)
    /\ UNCHANGED auxVars
    /\ UNCHANGED <<clock, last_request_time, pc, key, now, resp,
                   min_lod_for_background, bg, bgResult, render_locks,
                   lockHolder, guardHolder, active_background_renders, tiles,
                   meta, tmpFiles, faceSize>>

\* ------------------------------------------------------------------ Next
Next ==
    \/ \E r \in 1..MaxRenders, t \in {clock, clock + MIN_INTERVAL} : Arrive(r, t)
    \/ \E r \in Reqs : RateLimit(r)
    \/ \E r \in Reqs : CacheCheck(r)
    \/ \E r \in Reqs : GetRenderLock(r)
    \/ \E r \in Reqs : AcquireRenderLock(r)
    \/ \E r \in Reqs : Recheck(r)
    \/ \E r \in Reqs : Admit(r)
    \/ \E r \in Reqs : Lod0Render(r)
    \/ \E r \in Reqs : Lod0Upload(r)
    \/ \E r \in Reqs : BgRender(r)
    \/ \E r \in Reqs : BgUpload(r)
    \/ \E r \in Reqs : BgTmp(r)
    \/ \E r \in Reqs : BgMeta(r)
    \/ \E r \in Reqs : BgCompleted(r)
    \/ \E r \in Reqs : BgError(r)
    \/ \E r \in Reqs : BgFinally(r)
    \/ \E build \in Builds \cup {InvalidBuild}, client \in Clients \cup {NoClient} :
          RenderStatus(build, client)

Spec == Init /\ [][Next]_vars

\* The rate limiter alone: MaxRequests requests arrive at any tick and go
\* through server.py:469-477.
NextRate ==
    \/ \E r \in Reqs, t \in clock..MaxClock : Arrive(r, t)
    \/ \E r \in Reqs : RateLimit(r)

SpecRate == Init /\ [][NextRate]_vars

\* ------------------------------------ _increment_build_tiles_uploaded
\* The build whose tiles the worker threads upload.
UploadBuild == CHOOSE b \in Builds : TRUE

\* tiles_total of the record while tiles are uploaded: no tiles known, the
\* LOD0 tiles of a 512 face, DEFAULT_TILES_TOTAL.
TotalsAtUpload == {0, 6, DEFAULT_TILES_TOTAL}

\* The registry during an upload (server.py:203-211, 626-638), with no tile
\* or all tiles but one counted.
InitIncrement ==
    /\ InitController
    /\ InitWorkers
    /\ InitQueue("queue", 1, 0)
    /\ InitPut(1, 0)
    /\ InitLog("local")
    /\ InitBuild(NoCtx, NoValue, NoIds)
    /\ InitSplit("package", NoSplitInput)
    /\ InitLru
    /\ \E total \in TotalsAtUpload : \E counted \in {0, Max(0, total - 1)} :
          BUILD_STATUS = set_build_status(<<>>, UploadBuild, "uploading",
              [tiles_uploaded |-> counted, tiles_total |-> total,
               progress |-> IF total > 0 THEN <<counted, total>> ELSE Zero,
               error |-> "None"])

\* `with BUILD_LOCK:` entered without waiting for the lock.
IncrementAcquireNoLock(w) ==
    /\ wpc[w] = "idle"
    /\ BUILD_LOCK' = w
    /\ held' = [held EXCEPT ![w] = GetBuildState(BUILD_STATUS, UploadBuild)]
    /\ wpc' = [wpc EXCEPT ![w] = "locked"]
    /\ UNCHANGED <<ctlVars, BUILD_STATUS, queueVars, putVars, logVars, bsVars, splitVars, lruVars>>

\* `with BUILD_LOCK:` entered and the record copied (server.py:142-143).
IncrementAcquire(w) ==
    /\ wpc[w] = "idle"
    /\ BUILD_LOCK = NoWorker
    /\ BUILD_LOCK' = w
    /\ held' = [held EXCEPT ![w] = GetBuildState(BUILD_STATUS, UploadBuild)]
    /\ wpc' = [wpc EXCEPT ![w] = "locked"]
    /\ UNCHANGED <<ctlVars, BUILD_STATUS, queueVars, putVars, logVars, bsVars, splitVars, lruVars>>

\* The copy bumped and stored, BUILD_LOCK left (server.py:144-150).
IncrementStore(w) ==
    /\ wpc[w] = "locked"
    /\ BUILD_STATUS' = PutBuildState(BUILD_STATUS, UploadBuild,
                                     bump_tiles_uploaded(held[w]))
    /\ BUILD_LOCK' = NoWorker
    /\ held' = [held EXCEPT ![w] = NoRecord]
    /\ wpc' = [wpc EXCEPT ![w] = "done"]
    /\ UNCHANGED <<ctlVars, queueVars, putVars, logVars, bsVars, splitVars, lruVars>>

NextIncrement ==
    \/ \E w \in Workers : IncrementAcquire(w)
    \/ \E w \in Workers : IncrementStore(w)

SpecIncrement == InitIncrement /\ [][NextIncrement]_vars

\* ------------------------------------------------------ TileUploadQueue
othVars == <<ctlVars, BUILD_STATUS, regVars, putVars, logVars, bsVars, splitVars, lruVars>>

\* Tiles put and not yet marked done, the None items apart: in the queue
\* or in the hands of a worker thread.
Holding(p) == thread[p] \in {"uploading", "uploaded", "failed"}
InQueue == {i \in 1..Len(queued) : queued[i] # Sentinel}
InFlight == Cardinality(InQueue) + Cardinality({p \in Pool : Holding(p)})

\* queue.Queue.unfinished_tasks: items put and not yet task_done.
unfinished_tasks == Len(queued) + Cardinality({p \in Pool : Holding(p)})

\* enqueue up to the blocking call: the state of the tile is set to
\* generated.
EnqueueGenerated ==
    /\ ppc = "ready"
    /\ ~closed
    /\ enqueued < ntiles
    /\ states' = [states EXCEPT ![enqueued + 1] = "generated"]
    /\ ppc' = "put"
    /\ UNCHANGED <<impl, workers, ntiles, file, queued, permits, closed,
                   uploaded_count, errors, thread, item, result, enqueued,
                   sentinels, calls>>
    /\ UNCHANGED othVars

\* self._queue.put of the queue.Queue class: blocks while the queue is full.
EnqueuePut ==
    /\ impl = "queue"
    /\ ppc = "put"
    /\ Len(queued) < InFlightBound
    /\ queued' = Append(queued, enqueued + 1)
    /\ enqueued' = enqueued + 1
    /\ ppc' = "ready"
    /\ UNCHANGED <<impl, workers, ntiles, file, states, permits, closed,
                   uploaded_count, errors, thread, item, result, sentinels,
                   calls>>
    /\ UNCHANGED othVars

\* self._backpressure.acquire() and self._executor.submit of the executor
\* class: blocks while no permit is left.
EnqueueSubmit ==
    /\ impl = "executor"
    /\ ppc = "put"
    /\ permits > 0
    /\ permits' = permits - 1
    /\ queued' = Append(queued, enqueued + 1)
    /\ enqueued' = enqueued + 1
    /\ ppc' = "ready"
    /\ UNCHANGED <<impl, workers, ntiles, file, states, closed,
                   uploaded_count, errors, thread, item, result, sentinels,
                   calls>>
    /\ UNCHANGED othVars

\* A worker thread takes the next item; on None it marks it done and ends.
WorkerGet(p) ==
    /\ thread[p] = "idle"
    /\ queued # <<>>
    /\ queued' = Tail(queued)
    /\ IF Head(queued) = Sentinel
       THEN /\ thread' = [thread EXCEPT ![p] = "exited"]
            /\ UNCHANGED item
       ELSE /\ thread' = [thread EXCEPT ![p] = "uploading"]
            /\ item' = [item EXCEPT ![p] = Head(queued)]
    /\ UNCHANGED <<impl, workers, ntiles, file, states, permits, closed,
                   uploaded_count, errors, result, ppc, enqueued, sentinels,
                   calls>>
    /\ UNCHANGED othVars

\* upload_fn and what follows it in the try block, or the except block.
WorkerUpload(p) ==
    /\ thread[p] = "uploading"
    /\ \E raised \in BOOLEAN :
         IF raised
         THEN /\ errors' = errors + 1
              /\ result' = [result EXCEPT ![item[p]] = "raised"]
              /\ thread' = [thread EXCEPT ![p] = "failed"]
              /\ UNCHANGED <<states, uploaded_count>>
         ELSE /\ states' = [states EXCEPT ![item[p]] = "visible"]
              /\ uploaded_count' = uploaded_count + 1
              /\ result' = [result EXCEPT ![item[p]] = "ok"]
              /\ thread' = [thread EXCEPT ![p] = "uploaded"]
              /\ UNCHANGED errors
    /\ UNCHANGED <<impl, workers, ntiles, file, queued, permits, closed, item,
                   ppc, enqueued, sentinels, calls>>
    /\ UNCHANGED othVars

\* The finally block without the permit given back.
WorkerFinallyKeepsPermit(p) ==
    /\ Holding(p) /\ thread[p] # "uploading"
    /\ file' = [file EXCEPT ![item[p]] = FALSE]
    /\ thread' = [thread EXCEPT ![p] = "idle"]
    /\ item' = [item EXCEPT ![p] = NoTile]
    /\ UNCHANGED <<impl, workers, ntiles, states, queued, permits, closed,
                   uploaded_count, errors, result, ppc, enqueued, sentinels,
                   calls>>
    /\ UNCHANGED othVars

\* The finally block with the local file kept after a failed upload.
WorkerFinallyKeepsFailed(p) ==
    /\ Holding(p) /\ thread[p] # "uploading"
    /\ file' = [file EXCEPT ![item[p]] = (thread[p] = "failed")]
    /\ permits' = IF impl = "executor" THEN permits + 1 ELSE permits
    /\ thread' = [thread EXCEPT ![p] = "idle"]
    /\ item' = [item EXCEPT ![p] = NoTile]
    /\ UNCHANGED <<impl, workers, ntiles, states, queued, closed,
                   uploaded_count, errors, result, ppc, enqueued, sentinels,
                   calls>>
    /\ UNCHANGED othVars

\* The finally block: the local file is unlinked, then the item is marked
\* done (task_done) or the permit is given back (release).
WorkerFinally(p) ==
    /\ Holding(p) /\ thread[p] # "uploading"
    /\ file' = [file EXCEPT ![item[p]] = FALSE]
    /\ permits' = IF impl = "executor" THEN permits + 1 ELSE permits
    /\ thread' = [thread EXCEPT ![p] = "idle"]
    /\ item' = [item EXCEPT ![p] = NoTile]
    /\ UNCHANGED <<impl, workers, ntiles, states, queued, closed,
                   uploaded_count, errors, result, ppc, enqueued, sentinels,
                   calls>>
    /\ UNCHANGED othVars

\* close_and_wait up to the first blocking call: a call on a closed queue
\* returns at once.
CloseBegin ==
    /\ ppc = "ready"
    /\ enqueued = ntiles
    /\ Len(calls) < MaxCalls
    /\ IF closed
       THEN /\ calls' = Append(calls, Returned)
            /\ UNCHANGED <<closed, ppc>>
       ELSE /\ closed' = TRUE
            /\ ppc' = IF impl = "queue" THEN "sentinels" ELSE "wait"
            /\ UNCHANGED calls
    /\ UNCHANGED <<impl, workers, ntiles, file, states, queued, permits,
                   uploaded_count, errors, thread, item, result, enqueued,
                   sentinels>>
    /\ UNCHANGED othVars

\* self._queue.put(None), once per worker thread; blocks while the queue is
\* full.
ClosePutSentinel ==
    /\ impl = "queue"
    /\ ppc = "sentinels"
    /\ Len(queued) < InFlightBound
    /\ queued' = Append(queued, Sentinel)
    /\ sentinels' = sentinels + 1
    /\ ppc' = IF sentinels + 1 = workers THEN "wait" ELSE "sentinels"
    /\ UNCHANGED <<impl, workers, ntiles, file, states, permits, closed,
                   uploaded_count, errors, thread, item, result, enqueued,
                   calls>>
    /\ UNCHANGED othVars

\* The end of close_and_wait.
CloseOutcome == IF errors > 0 THEN Raised(errors) ELSE Returned

\* The executor's worker threads after shutdown(wait=True).
AfterShutdown ==
    [p \in Pool |-> IF impl = "executor" /\ thread[p] = "idle"
                    THEN "exited" ELSE thread[p]]

\* close_and_wait not waiting for the uploads.
CloseEndWithoutWaiting ==
    /\ ppc = "wait"
    /\ thread' = AfterShutdown
    /\ calls' = Append(calls, CloseOutcome)
    /\ ppc' = "ready"
    /\ UNCHANGED <<impl, workers, ntiles, file, states, queued, permits,
                   closed, uploaded_count, errors, item, result, enqueued,
                   sentinels>>
    /\ UNCHANGED othVars

\* self._queue.join() and the thread joins, or wait(pending) and
\* shutdown(wait=True); then the aggregate error if an upload failed.
CloseEnd ==
    /\ ppc = "wait"
    /\ unfinished_tasks = 0
    /\ thread' = AfterShutdown
    /\ calls' = Append(calls, CloseOutcome)
    /\ ppc' = "ready"
    /\ UNCHANGED <<impl, workers, ntiles, file, states, queued, permits,
                   closed, uploaded_count, errors, item, result, enqueued,
                   sentinels>>
    /\ UNCHANGED othVars

InitUploader ==
    /\ InitController
    /\ BUILD_STATUS = <<>>
    /\ InitWorkers
    /\ \E i \in Impls, w \in Pool, n \in 0..MaxTiles : InitQueue(i, w, n)
    /\ InitPut(1, 0)
    /\ InitLog("local")
    /\ InitBuild(NoCtx, NoValue, NoIds)
    /\ InitSplit("package", NoSplitInput)
    /\ InitLru

NextUploader ==
    \/ EnqueueGenerated
    \/ EnqueuePut
    \/ EnqueueSubmit
    \/ \E p \in Pool : WorkerGet(p)
    \/ \E p \in Pool : WorkerUpload(p)
    \/ \E p \in Pool : WorkerFinally(p)
    \/ CloseBegin
    \/ ClosePutSentinel
    \/ CloseEnd

SpecUploader == InitUploader /\ [][NextUploader]_vars

\* ------------------------------------------------ upload_tiles_parallel
notPut == <<ctlVars, BUILD_STATUS, regVars, queueVars, logVars, bsVars, splitVars, lruVars>>

\* executor.submit(_put, tile_key, tile_bytes), in the order of the list.
PutSubmit ==
    /\ upc = "submit"
    /\ submitted < ntiles_put
    /\ futures' = [futures EXCEPT ![submitted + 1] = "pending"]
    /\ submitted' = submitted + 1
    /\ UNCHANGED <<max_workers, ntiles_put, active_uploads, notified,
                   completed, collected, raised_for, upc>>
    /\ UNCHANGED notPut

\* The loop over the tiles is over; as_completed follows.
PutSubmitted ==
    /\ upc = "submit"
    /\ submitted = ntiles_put
    /\ upc' = "collect"
    /\ UNCHANGED <<max_workers, ntiles_put, futures, submitted, active_uploads,
                   notified, completed, collected, raised_for>>
    /\ UNCHANGED notPut

Running == {t \in Tiles : futures[t] = "running"}
Pending == {t \in Tiles : futures[t] = "pending"}

\* A thread of the executor, of which there are max_workers, takes the
\* oldest pending future and enters _put.
PutStart(t) ==
    /\ t \in Pending
    /\ \A u \in Pending : t <= u
    /\ Cardinality(Running) < max_workers
    /\ futures' = [futures EXCEPT ![t] = "running"]
    /\ active_uploads' = active_uploads + 1
    /\ UNCHANGED <<max_workers, ntiles_put, submitted, notified, completed,
                   collected, raised_for, upc>>
    /\ UNCHANGED notPut

\* put_object (or the write of the local file), on_tile_uploaded after a
\* put that did not raise, and the finally block of _put.
PutEnd(t) ==
    /\ t \in Running
    /\ \E raised \in BOOLEAN :
         IF raised
         THEN /\ futures' = [futures EXCEPT ![t] = "failed"]
              /\ UNCHANGED notified
         ELSE /\ futures' = [futures EXCEPT ![t] = "ok"]
              /\ notified' = [notified EXCEPT ![t] = @ + 1]
    /\ active_uploads' = active_uploads - 1
    /\ completed' = Append(completed, t)
    /\ UNCHANGED <<max_workers, ntiles_put, submitted, collected, raised_for,
                   upc>>
    /\ UNCHANGED notPut

\* as_completed yields the next future that ended; future.result() raises
\* the error of a failed one.
PutCollect ==
    /\ upc = "collect"
    /\ IF collected = ntiles_put
       THEN /\ upc' = "exit"
            /\ UNCHANGED <<collected, raised_for>>
       ELSE /\ collected < Len(completed)
            /\ collected' = collected + 1
            /\ IF futures[completed[collected + 1]] = "failed"
               THEN /\ raised_for' = completed[collected + 1]
                    /\ upc' = "exit"
               ELSE UNCHANGED <<raised_for, upc>>
    /\ UNCHANGED <<max_workers, ntiles_put, futures, submitted, active_uploads,
                   notified, completed>>
    /\ UNCHANGED notPut

\* The with block left by shutdown(wait=False).
PutExitWithoutWaiting ==
    /\ upc = "exit"
    /\ upc' = IF raised_for = NoTile THEN "returned" ELSE "raised"
    /\ UNCHANGED <<max_workers, ntiles_put, futures, submitted, active_uploads,
                   notified, completed, collected, raised_for>>
    /\ UNCHANGED notPut

\* The with block is left: shutdown(wait=True) waits for every submitted
\* future, then the call returns or the error goes on to the caller.
PutExit ==
    /\ upc = "exit"
    /\ Pending = {} /\ Running = {}
    /\ upc' = IF raised_for = NoTile THEN "returned" ELSE "raised"
    /\ UNCHANGED <<max_workers, ntiles_put, futures, submitted, active_uploads,
                   notified, completed, collected, raised_for>>
    /\ UNCHANGED notPut

InitParallel ==
    /\ InitController
    /\ BUILD_STATUS = <<>>
    /\ InitWorkers
    /\ InitQueue("queue", 1, 0)
    /\ \E w \in Pool, n \in 0..MaxTiles : InitPut(w, n)
    /\ InitLog("local")
    /\ InitBuild(NoCtx, NoValue, NoIds)
    /\ InitSplit("package", NoSplitInput)
    /\ InitLru

NextParallel ==
    \/ PutSubmit
    \/ PutSubmitted
    \/ \E t \in Tiles : PutStart(t)
    \/ \E t \in Tiles : PutEnd(t)
    \/ PutCollect
    \/ PutExit

SpecParallel == InitParallel /\ [][NextParallel]_vars

\* ------------------------------------------------- tile_events.ndjson
notLog == <<ctlVars, BUILD_STATUS, regVars, queueVars, putVars, bsVars, splitVars, lruVars>>

\* The event _tile_state_event_writer appends for a tile and a state.
event(t, state) == [filename |-> t, state |-> state]

\* json.dumps(payload) as one line, and json.loads of a line; a line that
\* is not JSON makes json.loads raise.
dumps(payload) == <<"json", payload>>
is_json(line) == line[1] = "json"
loads(line) == line[2]
is_blank(line) == line[1] = "blank"

RECURSIVE scan_local(_, _, _, _, _, _)
\* The loop of read_jsonl_slice of storage_local from line idx on.
scan_local(lines, idx, cursor, limit, events, next_cursor) ==
    IF idx >= Len(lines)
    THEN <<events, next_cursor>>
    ELSE IF idx < cursor \/ is_blank(lines[idx + 1])
    THEN scan_local(lines, idx + 1, cursor, limit, events, next_cursor)
    ELSE LET read == IF is_json(lines[idx + 1])
                     THEN Append(events, loads(lines[idx + 1]))
                     ELSE events
         IN IF Len(read) >= limit
            THEN <<read, idx + 1>>
            ELSE scan_local(lines, idx + 1, cursor, limit, read, idx + 1)

RECURSIVE scan_r2(_, _, _, _, _, _)
\* The loop of read_jsonl_slice of storage_r2 from line idx on.
scan_r2(lines, idx, cursor, limit, events, next_cursor) ==
    IF idx >= Len(lines)
    THEN <<events, next_cursor>>
    ELSE IF idx < cursor \/ is_blank(lines[idx + 1])
    THEN scan_r2(lines, idx + 1, cursor, limit, events, next_cursor)
    ELSE LET valid == is_json(lines[idx + 1])
             read == IF valid THEN Append(events, loads(lines[idx + 1]))
                     ELSE events
             moved == IF valid THEN idx + 1 ELSE next_cursor
         IN IF Len(read) >= limit
            THEN <<read, moved>>
            ELSE scan_r2(lines, idx + 1, cursor, limit, read, moved)

\* read_jsonl_slice returning the index of the last line read as cursor.
read_jsonl_slice_cursor_short(b, lines, cursor, limit) ==
    LET slice == IF b = "local"
                 THEN scan_local(lines, 0, cursor, limit, <<>>, cursor)
                 ELSE scan_r2(lines, 0, cursor, limit, <<>>, cursor)
    IN <<slice[1], IF slice[1] = <<>> THEN slice[2] ELSE slice[2] - 1>>

\* read_jsonl_slice(key, cursor, limit) of backend b on a log of the given
\* lines: the events and the next cursor.
read_jsonl_slice(b, lines, cursor, limit) ==
    IF b = "local"
    THEN scan_local(lines, 0, cursor, limit, <<>>, cursor)
    ELSE scan_r2(lines, 0, cursor, limit, <<>>, cursor)

\* The state whose event the thread of a tile is appending.
Appending(t) ==
    IF epc[t] \in {"generated", "generated_locked", "generated_read"}
    THEN "generated" ELSE "visible"
InAppend(t) == epc[t] \in {"generated", "visible"}
Locked(t) == epc[t] \in {"generated_locked", "visible_locked"}
HasRead(t) == epc[t] \in {"generated_read", "visible_read"}
\* Where the thread is after _emit_state: the tile is put in the queue
\* after generated, and done with after visible.
AfterEmit(t) == IF Appending(t) = "generated" THEN "queued" ELSE "done"

\* enqueue is called for a tile by a face-worker thread: _set_state, then
\* _emit_state calls the event writer.
EnqueueCalled(t) ==
    /\ epc[t] = "idle"
    /\ epc' = [epc EXCEPT ![t] = "generated"]
    /\ call_order' = Append(call_order, t)
    /\ UNCHANGED <<backend, log, append_lock, existing_content, lock_order,
                   unwritten, returned, pager_cursor, pages>>
    /\ UNCHANGED notLog

\* append_jsonl of storage_local: the line is written to the file opened
\* for append, under _append_lock.
AppendLocal(t) ==
    /\ backend = "local"
    /\ InAppend(t)
    /\ append_lock = NoTile
    /\ log' = Append(log, dumps(event(t, Appending(t))))
    /\ lock_order' = Append(lock_order, event(t, Appending(t)))
    /\ returned' = returned + 1
    /\ epc' = [epc EXCEPT ![t] = AfterEmit(t)]
    /\ UNCHANGED <<backend, append_lock, existing_content, call_order,
                   unwritten, pager_cursor, pages>>
    /\ UNCHANGED notLog

\* `with _append_lock:` of storage_r2 entered without waiting for the lock.
AppendAcquireNoLock(t) ==
    /\ backend = "r2"
    /\ InAppend(t)
    /\ append_lock' = t
    /\ lock_order' = Append(lock_order, event(t, Appending(t)))
    /\ unwritten' = unwritten \cup {event(t, Appending(t))}
    /\ epc' = [epc EXCEPT ![t] = IF Appending(t) = "generated"
                                  THEN "generated_locked"
                                  ELSE "visible_locked"]
    /\ UNCHANGED <<backend, log, existing_content, call_order, returned,
                   pager_cursor, pages>>
    /\ UNCHANGED notLog

\* append_jsonl of storage_r2 takes _append_lock.
AppendAcquire(t) ==
    /\ backend = "r2"
    /\ InAppend(t)
    /\ append_lock = NoTile
    /\ append_lock' = t
    /\ lock_order' = Append(lock_order, event(t, Appending(t)))
    /\ unwritten' = unwritten \cup {event(t, Appending(t))}
    /\ epc' = [epc EXCEPT ![t] = IF Appending(t) = "generated"
                                  THEN "generated_locked"
                                  ELSE "visible_locked"]
    /\ UNCHANGED <<backend, log, existing_content, call_order, returned,
                   pager_cursor, pages>>
    /\ UNCHANGED notLog

\* get_object of the log: its content, "" for NoSuchKey, or an error that
\* leaves append_jsonl and is logged by _emit_state.
AppendGet(t) ==
    /\ Locked(t)
    /\ \E raised \in BOOLEAN :
         IF raised
         THEN /\ append_lock' = NoTile
              /\ epc' = [epc EXCEPT ![t] = AfterEmit(t)]
              /\ UNCHANGED existing_content
         ELSE /\ existing_content' = [existing_content EXCEPT ![t] = log]
              /\ epc' = [epc EXCEPT ![t] = IF Appending(t) = "generated"
                                            THEN "generated_read"
                                            ELSE "visible_read"]
              /\ UNCHANGED append_lock
    /\ UNCHANGED <<backend, log, call_order, lock_order, unwritten, returned,
                   pager_cursor, pages>>
    /\ UNCHANGED notLog

\* put_object with the new line put before the existing content.
AppendPutBackInFront(t) ==
    /\ HasRead(t)
    /\ \E raised \in BOOLEAN :
         IF raised
         THEN UNCHANGED <<log, unwritten, returned>>
         ELSE /\ log' = <<dumps(event(t, Appending(t)))>> \o existing_content[t]
              /\ unwritten' = unwritten \ {event(t, Appending(t))}
              /\ returned' = returned + 1
    /\ append_lock' = NoTile
    /\ epc' = [epc EXCEPT ![t] = AfterEmit(t)]
    /\ UNCHANGED <<backend, existing_content, call_order, lock_order,
                   pager_cursor, pages>>
    /\ UNCHANGED notLog

\* put_object of existing_content + new_line, and the lock released; an
\* error leaves append_jsonl and is logged by _emit_state.
AppendPutBack(t) ==
    /\ HasRead(t)
    /\ \E raised \in BOOLEAN :
         IF raised
         THEN UNCHANGED <<log, unwritten, returned>>
         ELSE /\ log' = Append(existing_content[t], dumps(event(t, Appending(t))))
              /\ unwritten' = unwritten \ {event(t, Appending(t))}
              /\ returned' = returned + 1
    /\ append_lock' = NoTile
    /\ epc' = [epc EXCEPT ![t] = AfterEmit(t)]
    /\ UNCHANGED <<backend, existing_content, call_order, lock_order,
                   pager_cursor, pages>>
    /\ UNCHANGED notLog

\* The upload of a queued tile; after an upload that did not raise the
\* worker thread emits visible.
TileUploaded(t) ==
    /\ epc[t] = "queued"
    /\ \E raised \in BOOLEAN :
         epc' = [epc EXCEPT ![t] = IF raised THEN "done" ELSE "visible"]
    /\ UNCHANGED <<backend, log, append_lock, existing_content, call_order,
                   lock_order, unwritten, returned, pager_cursor, pages>>
    /\ UNCHANGED notLog

\* GET /api/render/events with the cursor the client holds
\* (server.py:688-702).
ReadEvents ==
    /\ \E limit \in 1..MaxLimit :
         LET slice == read_jsonl_slice(backend, log, pager_cursor, limit)
         IN /\ pages' = pages \o slice[1]
            /\ pager_cursor' = slice[2]
    /\ UNCHANGED <<backend, log, append_lock, epc, existing_content,
                   call_order, lock_order, unwritten, returned>>
    /\ UNCHANGED notLog

InitEvents ==
    /\ InitController
    /\ BUILD_STATUS = <<>>
    /\ InitWorkers
    /\ InitQueue("queue", 1, 0)
    /\ InitPut(1, 0)
    /\ \E b \in Backends : InitLog(b)
    /\ InitBuild(NoCtx, NoValue, NoIds)
    /\ InitSplit("package", NoSplitInput)
    /\ InitLru

NextEvents ==
    \/ \E t \in LogTiles : EnqueueCalled(t)
    \/ \E t \in LogTiles : AppendLocal(t)
    \/ \E t \in LogTiles : AppendAcquire(t)
    \/ \E t \in LogTiles : AppendGet(t)
    \/ \E t \in LogTiles : AppendPutBack(t)
    \/ \E t \in LogTiles : TileUploaded(t)
    \/ ReadEvents

SpecEvents == InitEvents /\ [][NextEvents]_vars

\* ================================================================ claims
\* A request has started a render pipeline: it is in its synchronous LOD0
\* phase or has scheduled its background task.
Started(r) == pc[r] \in {"lod0", "upload0"} \/ bg[r] # "none"

\* A render invocation has left the handler and its background task, if it
\* scheduled one, has ended.
Finished(r) == pc[r] = "done" /\ bg[r] \in {"none", "done"}

\* The rate limiter has decided on the request.
Decided(r) == pc[r] \notin {"idle", "rate"}
Accepted(r) == Decided(r) /\ resp[r] # TooManyRequests
Rejected(r) == Decided(r) /\ resp[r] = TooManyRequests
Apart(r1, r2) == IF now[r1] < now[r2] THEN now[r2] - now[r1] ELSE now[r1] - now[r2]

\* C1: requests for the same render key that overlap on a cache miss start
\* one pipeline only; no second pipeline is started for the key unless an
\* earlier one of that key ended in an error.
C1_SingleFlight ==
    \A r1, r2 \in Reqs :
        (r1 # r2 /\ key[r1] = key[r2] /\ Started(r1) /\ Started(r2))
            => (bgResult[r1] = "error" \/ bgResult[r2] = "error")

\* C2: a request that finds metadata.json at the first cache check or at
\* the re-check under the render lock answers 200 cached with the manifest
\* of its render key, schedules no background task, and leaves the object
\* store, the registry and active_background_renders as they were.
C2_CacheHitFrame ==
    [][\A r \in Reqs :
          (pc[r] \in {"check", "recheck"} /\ exists(key[r]) /\ pc'[r] # pc[r])
              => /\ resp'[r] = Cached(key[r])
                 /\ resp'[r].tiles = Processing(key[r]).tiles
                 /\ pc'[r] = "done"
                 /\ bg' = bg
                 /\ tiles' = tiles
                 /\ meta' = meta
                 /\ BUILD_STATUS' = BUILD_STATUS
                 /\ active_background_renders' = active_background_renders]_vars

\* C2 witness: a request was answered from the cache at the re-check, after
\* it had missed at the first check and taken the render lock.
C2_Witness ==
    \E r \in Reqs :
        /\ pc[r] = "done"
        /\ resp[r] = Cached(key[r])
        /\ \E i \in 1..Len(render_locks) : render_locks[i] = key[r]
        /\ \A r2 \in Reqs \ {r} : key[r2] # key[r] \/ bg[r2] = "none"
                                  \/ resp[r2].status # "cached"

\* C3 as stated: of two requests that arrived less than MIN_INTERVAL apart,
\* one is accepted and the other is answered 429.
C3_OneAcceptedOne429 ==
    \A r1, r2 \in Reqs :
        (r1 # r2 /\ Decided(r1) /\ Decided(r2) /\ Apart(r1, r2) < MIN_INTERVAL)
            => \/ (Accepted(r1) /\ Rejected(r2))
               \/ (Rejected(r1) /\ Accepted(r2))

\* C3 amended: two requests that arrived less than MIN_INTERVAL apart are
\* never both accepted, so at least one of them is answered 429 and any two
\* accepted requests are at least MIN_INTERVAL apart.
C3_NeverBothAccepted ==
    \A r1, r2 \in Reqs :
        (r1 # r2 /\ Decided(r1) /\ Decided(r2) /\ Apart(r1, r2) < MIN_INTERVAL)
            => (Rejected(r1) \/ Rejected(r2))

\* C3 witness: two requests less than MIN_INTERVAL apart, the later one
\* through the limiter first and accepted, the earlier one answered 429.
C3_Witness ==
    \E r1, r2 \in Reqs :
        /\ now[r1] < now[r2]
        /\ now[r2] - now[r1] < MIN_INTERVAL
        /\ Rejected(r1)
        /\ Accepted(r2)

\* C4: the render keys with an active pipeline never outnumber the global
\* capacity; a cache miss that finds the capacity exhausted is answered
\* 202 queued and starts no pipeline.
C4_CapacityBound ==
    /\ Cardinality(active_background_renders) <= RenderCapacity
    /\ Cardinality({r \in Reqs : Started(r) /\ ~Finished(r)}) <= RenderCapacity

AllTiles(k) == process_cubemap_to_memory(faceSize[k], TILE_SIZE, 0, NoMaxLod)

C7_MetadataMonotonic ==
    [][\A k \in RenderKeys :
          /\ meta[k].status = "ready" => meta'[k].status = "ready"
          /\ meta'[k] # meta[k] => meta'[k].status \in {"processing", "ready"}]_vars

\* C7 witness: two background tasks of one render key both completed, so
\* the second wrote metadata.json when its status was already ready.
C7_Witness ==
    \E r1, r2 \in Reqs :
        /\ r1 # r2
        /\ key[r1] = key[r2]
        /\ bgResult[r1] = "completed"
        /\ bgResult[r2] = "completed"
        /\ meta[key[r1]].status = "ready"

\* C8 as stated: when the LOD0 tiles of a cold render are uploaded and its
\* LOD1 background task is about to start, metadata.json exists with the
\* status processing.
C8_ProcessingAfterLod0 ==
    \A r \in Reqs :
        (bg[r] = "start" /\ min_lod_for_background[r] = 1)
            => meta[key[r]].status \in {"processing", "ready"}

\* C8 amended: metadata.json is written by the background task alone, after
\* its tiles are uploaded and with the status ready; after LOD0 and while
\* the first pipeline of a key uploads, the key has no metadata.json.
C8_WrittenOnceReady ==
    \A k \in RenderKeys :
        /\ exists(k) =>
              /\ meta[k].status = "ready"
              /\ \E r \in Reqs :
                    /\ key[r] = k
                    /\ bg[r] = "completed" \/ bgResult[r] = "completed"
        /\ (\A r \in Reqs : key[r] = k =>
                bg[r] \in {"none", "start", "upload", "tmp", "meta", "error"}
                /\ bgResult[r] # "completed")
              => ~exists(k)

\* C8 witness: a cold render whose LOD0 upload succeeded and whose LOD1
\* background task completed; its metadata.json is ready.
C8_Witness ==
    \E r \in Reqs :
        /\ bgResult[r] = "completed"
        /\ min_lod_for_background[r] = 1
        /\ meta[key[r]].status = "ready"

\* C9: after a cold render in which the synchronous LOD0 upload and the
\* LOD1 background task both succeeded, metadata.json is ready and 120
\* tiles (24 LOD0 and 96 LOD1) are under the tile root.
C9_ColdRender120Tiles ==
    \A r \in Reqs :
        (bgResult[r] = "completed" /\ min_lod_for_background[r] = 1)
            => /\ meta[key[r]].status = "ready"
               /\ tiles[key[r]] = <<24, 96>>

\* C10: GET /api/status/{build} does not answer completed when
\* metadata.json is ready with a tiles_count of 0, and answers completed
\* only for a registry record with tiles_uploaded >= tiles_total.
C10_CompletionRule ==
    \A c \in Clients, b \in Builds, read_error \in BOOLEAN :
        LET answer == render_status(BUILD_STATUS, b, c, read_error)
        IN answer.status = "completed" =>
              /\ meta[<<c, b>>].tiles_count # 0
              /\ answer.tiles_uploaded >= answer.tiles_total

\* C11: an answer of GET /api/status/{build} with the status completed
\* carries progress 1.0, lod_ready 1 and tiles_uploaded = tiles_total > 0,
\* whether the registry record was completed by the background task or by
\* the metadata probe.
C11_CompletedIsFull ==
    \A c \in Clients \cup {NoClient}, b \in Builds, read_error \in BOOLEAN :
        LET answer == render_status(BUILD_STATUS, b, c, read_error)
        IN answer.status = "completed" =>
              /\ RatEq(answer.progress, One)
              /\ answer.lod_ready = 1
              /\ answer.tiles_uploaded = answer.tiles_total
              /\ answer.tiles_total > 0

\* C12: GET /api/status/{build} answers exactly {status: idle} for a build
\* that fails validate_build_string, and for a valid build without a
\* registry record whose metadata.json is missing; in both cases the
\* registry is left as it was.
C12_IdleAndUntouched ==
    \A c \in Clients \cup {NoClient} :
        /\ \A read_error \in BOOLEAN :
              /\ render_status(BUILD_STATUS, InvalidBuild, c, read_error)
                     = [status |-> "idle"]
              /\ render_status_registry(BUILD_STATUS, InvalidBuild, c,
                                        read_error) = BUILD_STATUS
        /\ \A b \in Builds \cup {UnknownBuild} :
              (b \notin DOMAIN BUILD_STATUS /\ get_json(<<c, b>>) = NoMeta)
                  => /\ render_status(BUILD_STATUS, b, c, FALSE)
                            = [status |-> "idle"]
                     /\ render_status_registry(BUILD_STATUS, b, c, FALSE)
                            = BUILD_STATUS

\* C12 witness: the registry holds the record of a rendered build, and a
\* build that was never rendered, without metadata.json, is answered idle.
C12_Witness ==
    /\ \E b \in Builds : b \in DOMAIN BUILD_STATUS /\ BUILD_STATUS[b].status = "completed"
    /\ UnknownBuild \notin DOMAIN BUILD_STATUS
    /\ \E c \in Clients :
          /\ get_json(<<c, UnknownBuild>>) = NoMeta
          /\ render_status(BUILD_STATUS, UnknownBuild, c, FALSE) = [status |-> "idle"]

\* C13: every registry record that has tiles_uploaded and tiles_total
\* satisfies 0 <= tiles_uploaded <= tiles_total, and its progress is
\* tiles_uploaded / tiles_total.
C13_CountersConsistent ==
    \A b \in DOMAIN BUILD_STATUS :
        LET state == BUILD_STATUS[b]
        IN ({"tiles_uploaded", "tiles_total"} \subseteq DOMAIN state) =>
              /\ 0 <= state.tiles_uploaded
              /\ state.tiles_uploaded <= state.tiles_total
              /\ "progress" \in DOMAIN state =>
                    state.progress[1] * state.tiles_total
                        = state.tiles_uploaded * state.progress[2]

\* C14: every call of _increment_build_tiles_uploaded that a worker thread
\* completes raises tiles_uploaded of the build by exactly one, or leaves
\* it at tiles_total when tiles_total is known and reached, and stores the
\* progress of the new count.
C14_AtomicIncrement ==
    [][\A w \in Workers :
          (wpc[w] = "locked" /\ wpc'[w] = "done") =>
              LET before == BUILD_STATUS[UploadBuild]
                  after == BUILD_STATUS'[UploadBuild]
              IN IF before.tiles_total > 0
                 THEN /\ after.tiles_uploaded =
                            Min(before.tiles_uploaded + 1, before.tiles_total)
                      /\ after.progress =
                            <<after.tiles_uploaded, before.tiles_total>>
                 ELSE after.tiles_uploaded = before.tiles_uploaded + 1]_vars

\* C14 also as the count after N calls: tiles_uploaded has grown by the
\* number of completed calls, capped at a known tiles_total.
C14_Witness ==
    /\ \A w \in Workers : wpc[w] = "done"
    /\ BUILD_STATUS[UploadBuild].tiles_total = DEFAULT_TILES_TOTAL
    /\ BUILD_STATUS[UploadBuild].tiles_uploaded = MaxWorkers
    /\ BUILD_STATUS[UploadBuild].progress = <<MaxWorkers, DEFAULT_TILES_TOTAL>>

\* The status of the registry record of a build, "absent" without a record.
StatusOf(bs, b) == IF b \in DOMAIN bs THEN bs[b].status ELSE "absent"

\* C15 as claimed: the status of a record changes only from processing to
\* uploading, from uploading to completed, or from any status to error.
C15_OnlyForward ==
    [][\A b \in Builds :
          LET old == StatusOf(BUILD_STATUS, b)
              new == StatusOf(BUILD_STATUS', b)
          IN (old # "absent" /\ new # old) =>
                \/ <<old, new>> \in {<<"processing", "uploading">>,
                                     <<"uploading", "completed">>}
                \/ new = "error"]_vars

\* C15 as the code has it: a record is never removed, and each change of
\* its status is written by the step of a pipeline of the build that the
\* order processing, uploading, processing (LOD0 ended), processing
\* (background task started), uploading, completed gives, by the except
\* branch of the background task (error), or by the status endpoint
\* (completed, error).
C15_StatusWriters ==
    [][\A b \in Builds :
          LET old == StatusOf(BUILD_STATUS, b)
              new == StatusOf(BUILD_STATUS', b)
              Of(r) == key[r] # NoKey /\ BuildOf(key[r]) = b
              Request(r, from, to) == Of(r) /\ pc[r] = from /\ pc'[r] = to
              Task(r, from, to) == Of(r) /\ bg[r] = from /\ bg'[r] = to
              Endpoint == pc' = pc /\ bg' = bg
          IN new # old =>
               CASE new = "processing" ->
                      \E r \in Reqs : \/ Request(r, "admit", "lod0")
                                      \/ Request(r, "lod0", "done")
                                      \/ Request(r, "upload0", "done")
                                      \/ Task(r, "start", "error")
                 [] new = "uploading" ->
                      \E r \in Reqs : \/ Request(r, "lod0", "upload0")
                                      \/ Task(r, "start", "upload")
                 [] new = "completed" ->
                      \/ \E r \in Reqs : Task(r, "completed", "finally")
                      \/ Endpoint
                 [] new = "error" ->
                      \/ \E r \in Reqs : Task(r, "error", "finally")
                      \/ Endpoint
                 [] OTHER -> FALSE]_vars

\* A cold render has uploaded its LOD0 tiles and set the record of its
\* build back from uploading to processing with LOD0 ready, the background
\* task scheduled.
C15_Witness ==
    \E r \in Reqs :
        /\ pc[r] = "done"
        /\ bg[r] = "start"
        /\ min_lod_for_background[r] = 1
        /\ StatusOf(BUILD_STATUS, BuildOf(key[r])) = "processing"
        /\ BUILD_STATUS[BuildOf(key[r])].lod_ready = 0

\* The except branch of the background task of request r is taken.
BackgroundFailed(r) == bg[r] = "error" /\ bg'[r] = "finally"

\* C16: when the background task of a render fails, the record of its build
\* has status error and carries the error message, no step of a background
\* task changes the response of a render request, and the status endpoint,
\* asked next for the build with or without the client, answers error with
\* the message.
C16_BackgroundFailure ==
    [][\A r \in Reqs :
          /\ (bg[r] \notin {"none", "done"} /\ bg'[r] # bg[r]) => resp' = resp
          /\ BackgroundFailed(r) =>
               LET b == BuildOf(key[r])
               IN /\ StatusOf(BUILD_STATUS', b) = "error"
                  /\ BUILD_STATUS'[b].error = "exc"
                  /\ \A c \in {key[r][1], NoClient} :
                       LET answer == render_status(BUILD_STATUS', b, c, FALSE)
                       IN /\ answer.status = "error"
                          /\ answer.error = "exc"]_vars

\* upload_tiles_parallel of the LOD0 tiles raises inside render_cubemap.
Lod0UploadFailed(r) ==
    /\ pc[r] = "upload0"
    /\ pc'[r] = "done"
    /\ min_lod_for_background'[r] = 0

\* upload_tiles_parallel raises inside the background task.
BgUploadFailed(r) == bg[r] = "upload" /\ bg'[r] = "error"

\* C17 as claimed: a failed LOD0 upload answers the render request with
\* HTTP 500; a failed background upload changes no response and ends in
\* the registry status error.
C17_Lod0FailureIs500 ==
    [][\A r \in Reqs :
          /\ Lod0UploadFailed(r) => resp'[r].code = 500
          /\ BgUploadFailed(r) => resp' = resp
          /\ BackgroundFailed(r) =>
               /\ resp' = resp
               /\ StatusOf(BUILD_STATUS', BuildOf(key[r])) = "error"]_vars

\* C17 as the code has it: a failed LOD0 upload still answers 202
\* processing, leaves the record at processing with the error
\* lod0_sync_failed and schedules the background task from LOD0; a failed
\* background upload changes no response and ends in the registry status
\* error.
C17_Lod0FailureIsAccepted ==
    [][\A r \in Reqs :
          /\ Lod0UploadFailed(r) =>
               /\ resp'[r] = Processing(key[r])
               /\ StatusOf(BUILD_STATUS', BuildOf(key[r])) = "processing"
               /\ BUILD_STATUS'[BuildOf(key[r])].error = "lod0_sync_failed"
               /\ bg'[r] = "start"
          /\ BgUploadFailed(r) => resp' = resp
          /\ BackgroundFailed(r) =>
               /\ resp' = resp
               /\ StatusOf(BUILD_STATUS', BuildOf(key[r])) = "error"]_vars

\* A render request whose LOD0 upload failed after some tiles were counted:
\* answered 202, its background task scheduled from LOD0.
C17_Witness ==
    \E r \in Reqs :
        /\ pc[r] = "done"
        /\ resp[r].code = 202
        /\ bg[r] = "start"
        /\ min_lod_for_background[r] = 0
        /\ BUILD_STATUS[BuildOf(key[r])].error = "lod0_sync_failed"
        /\ BUILD_STATUS[BuildOf(key[r])].tiles_uploaded > 0

\* The tiles the producer has passed to enqueue.
Enqueued == 1..enqueued

Succeeded == {t \in Tiles : result[t] = "ok"}
Failed == {t \in Tiles : result[t] = "raised"}

\* C19: once a close_and_wait call has returned or raised, every enqueued
\* upload has finished; the first call raised exactly if an upload_fn call
\* raised, with the number of failed uploads; uploaded_count is the number
\* of uploads that succeeded; a later call returns without raising.
C19_CloseAndWait ==
    calls # <<>> =>
        /\ \A t \in Enqueued : result[t] # "none"
        /\ \A p \in Pool : ~Holding(p)
        /\ calls[1].raised <=> Failed # {}
        /\ calls[1].raised => calls[1].failed = Cardinality(Failed)
        /\ uploaded_count = Cardinality(Succeeded)
        /\ \A i \in 2..Len(calls) : calls[i] = Returned

\* close_and_wait was called twice on a queue with more tiles than the
\* in-flight bound: the first call raised for one failed upload, the second
\* returned.
C19_Witness ==
    /\ Len(calls) = 2
    /\ calls[1] = Raised(1)
    /\ calls[2] = Returned
    /\ enqueued > InFlightBound
    /\ uploaded_count = enqueued - 1

\* C20: the tiles accepted by enqueue whose upload has not finished are
\* never more than the in-flight bound.
C20_InFlightBounded == InFlight <= InFlightBound

\* C21: the state of a tile in self._states moves along generated,
\* (queued), uploading, visible; a tile is visible only after its upload_fn
\* call returned; a tile whose upload failed keeps its state and has an
\* error recorded; after a close_and_wait without failures every enqueued
\* tile is visible.
C21_TileStates ==
    [][\A t \in Tiles :
          /\ states'[t] # states[t] =>
               <<states[t], states'[t]>> \in
                   {<<"none", "generated">>, <<"generated", "queued">>,
                    <<"generated", "uploading">>, <<"queued", "uploading">>,
                    <<"uploading", "visible">>}
          /\ states'[t] = "visible" => result'[t] = "ok"
          /\ result'[t] = "raised" =>
               /\ states'[t] = states[t]
               /\ errors' >= 1
          /\ (calls' # <<>> /\ Failed = {} /\ t \in Enqueued) =>
               states'[t] = "visible"]_vars

\* process_cubemap, which calls on_tile_ready = uploader.enqueue for each
\* tile it writes, has returned.
GenerationReturned == enqueued = ntiles /\ ppc # "put"

\* An upload_fn call has begun.
UploadBegun == \E p \in Pool : Holding(p)

\* C22: no upload_fn call begins before the generation of the tiles has
\* returned, and every generated tile is uploaded by the time
\* close_and_wait ends.
C22_TwoPhase ==
    /\ UploadBegun => GenerationReturned
    /\ calls # <<>> => \A t \in 1..ntiles : result[t] # "none"

PutOver == upc \in {"returned", "raised"}
FailedPuts == {t \in Tiles : futures[t] = "failed"}

\* C23: upload_tiles_parallel never has more than max_workers uploads
\* running; on_tile_uploaded is called once for a tile whose put succeeded
\* and never for another tile; the call ends only after every submitted
\* upload has ended, and it raises exactly if a put failed, with the error
\* of the first future that as_completed found failed.
C23_ParallelPut ==
    /\ Cardinality(Running) <= max_workers
    /\ active_uploads = Cardinality(Running)
    /\ \A t \in Tiles : notified[t] = IF futures[t] = "ok" THEN 1 ELSE 0
    /\ PutOver =>
         /\ \A t \in 1..ntiles_put : futures[t] \in {"ok", "failed"}
         /\ upc = "raised" <=> FailedPuts # {}
         /\ upc = "raised" =>
              /\ raised_for \in FailedPuts
              /\ \A i \in 1..Len(completed) :
                   completed[i] = raised_for =>
                       \A j \in 1..(i - 1) : completed[j] \notin FailedPuts

\* A call with more tiles than workers has raised the error of a failed
\* put after a put that ended later had succeeded and was notified.
C23_Witness ==
    /\ upc = "raised"
    /\ ntiles_put > max_workers
    /\ \E i \in 1..Len(completed) :
         /\ completed[i] = raised_for
         /\ \E j \in (i + 1)..Len(completed) : notified[completed[j]] = 1

\* The events of the log, line by line.
Records == [i \in 1..Len(log) |-> loads(log[i])]

\* C24: on a log of n appended records, read_jsonl_slice(cursor, limit)
\* returns the records cursor+1 .. cursor+limit in append order with the
\* cursor after the last of them, and ([], cursor) at or past the end; a
\* client paging with the returned cursors has received every record up to
\* its cursor exactly once, in order; on both backends.
C24_SliceRoundTrip ==
    LET n == Len(log)
    IN /\ \A cursor \in 0..(n + 1), limit \in 1..MaxLimit :
            LET slice == read_jsonl_slice(backend, log, cursor, limit)
                last == Min(cursor + limit, n)
            IN /\ slice[1] = IF cursor >= n THEN <<>>
                             ELSE SubSeq(Records, cursor + 1, last)
               /\ slice[2] = IF cursor >= n THEN cursor ELSE last
       /\ pager_cursor <= n
       /\ pages = SubSeq(Records, 1, pager_cursor)

\* A client has paged through a log of two events for every tile, with
\* more than one read.
C24_Witness ==
    /\ Len(log) = 2 * MaxLogTiles
    /\ Len(log) > MaxLimit
    /\ pager_cursor = Len(log)
    /\ pages = Records

\* The payloads of the append calls that have written, in the order in
\* which the calls took _append_lock.
Written == SelectSeq(lock_order, LAMBDA payload : payload \notin unwritten)

\* C25: the log holds one line for every append_jsonl call that has
\* returned, in the order in which the calls took the append lock, and no
\* step changes or removes a line that was written.
C25_AppendOnly ==
    [][/\ Len(log') = returned'
       /\ log' = [i \in 1..Len(Written') |-> dumps(Written'[i])]
       /\ Len(log') >= Len(log)
       /\ \A i \in 1..Len(log) : log'[i] = log[i]]_vars

\* On the R2 backend an append call has failed, the others have written
\* three lines or more, and no call is under way.
C25_Witness ==
    /\ backend = "r2"
    /\ append_lock = NoTile
    /\ unwritten # {}
    /\ returned >= 3
    /\ Len(log) = returned

\* Where a value is in a sequence, 0 if it is not.
Position(seq, x) ==
    IF \E i \in 1..Len(seq) : seq[i] = x
    THEN CHOOSE i \in 1..Len(seq) : seq[i] = x
    ELSE 0

\* C26 as claimed: the generated lines of the log are in the order in
\* which enqueue was called, and every visible line of a tile has the
\* generated line of the tile before it.
C26_EnqueueOrder ==
    /\ \A i, j \in 1..Len(log) :
         (i < j /\ Records[i].state = "generated"
                /\ Records[j].state = "generated") =>
             Position(call_order, Records[i].filename)
                 < Position(call_order, Records[j].filename)
    /\ \A j \in 1..Len(log) :
         Records[j].state = "visible" =>
             \E i \in 1..(j - 1) :
                 Records[i] = event(Records[j].filename, "generated")

\* C26 as the code has it: the lines of the log are in the order in which
\* the append calls took the append lock, and every visible line of a tile
\* whose generated event was written has that line before it.
C26_LockOrder ==
    /\ \A i, j \in 1..Len(log) :
         i < j => Position(lock_order, Records[i])
                      < Position(lock_order, Records[j])
    /\ \A j \in 1..Len(log) :
         LET generated == event(Records[j].filename, "generated")
         IN (Records[j].state = "visible" /\ generated \notin unwritten) =>
                \E i \in 1..(j - 1) : Records[i] = generated

\* Enqueue was called for the first tile before the second, and the
\* generated line of the second tile is the first line of the log, that of
\* the first tile the second line.
C26_Witness ==
    /\ Len(call_order) >= 2
    /\ Len(log) >= 2
    /\ Records[1] = event(call_order[2], "generated")
    /\ Records[2] = event(call_order[1], "generated")

\* ----------------------------------------- build strings and request ids
notBuild == <<ctlVars, BUILD_STATUS, regVars, queueVars, putVars, logVars,
              splitVars, lruVars>>

\* POST /api/render for the scene with the selection sel: the build string
\* (server.py:538-539), the cache check (server.py:546-566) and, on a miss,
\* the render that composes the selection and stores its tiles and metadata
\* under the build string (server.py:606-611, 182-187).
RenderSelection(sel) ==
    /\ ctx # NoCtx
    /\ renders < MaxSelections
    /\ LET build == build_string_from_selection(ctx.scene_index, ctx.layers, sel)
           cache_exists == build \in DOMAIN tile_cache
           stack_img == stack_layers_image_only(ctx.layers, sel)
       IN /\ build_str' = build
          /\ IF cache_exists
             THEN /\ served' = tile_cache[build]
                  /\ UNCHANGED tile_cache
             ELSE /\ served' = stack_img
                  /\ tile_cache' = [b \in DOMAIN tile_cache \cup {build} |->
                                       IF b = build THEN stack_img
                                       ELSE tile_cache[b]]
    /\ requested' = sel
    /\ renders' = renders + 1
    /\ UNCHANGED <<ctx, build_input, validated, verdict, payload_ids, http,
                   config_loaded>>
    /\ UNCHANGED notBuild

\* The client asks for the status of the build the render answered with
\* (server.py:733).
ValidateRendered ==
    /\ renders > 0
    /\ validated = NoValue
    /\ validated' = Str(build_str)
    /\ verdict' = validate_build_string(Str(build_str))
    /\ UNCHANGED <<ctx, requested, build_str, tile_cache, served, renders,
                   build_input, payload_ids, http, config_loaded>>
    /\ UNCHANGED notBuild

\* A client sends build_input as {build} (server.py:733, 901).
ValidateBuildInput ==
    /\ build_input # NoValue
    /\ validated = NoValue
    /\ validated' = build_input
    /\ verdict' = validate_build_string(build_input)
    /\ UNCHANGED <<ctx, requested, build_str, tile_cache, served, renders,
                   build_input, payload_ids, http, config_loaded>>
    /\ UNCHANGED notBuild

\* not x, for a payload value x.
Falsy(v) == v.type = "none" \/ (v.type = "str" /\ v.s = <<>>)

\* POST /api/render, from the reading of the payload to the call of
\* load_client_config (server.py:479-500), for a request the rate limiter
\* has let through and whose selection is a non-empty dict.
RenderIds ==
    /\ payload_ids # NoIds
    /\ http = 0
    /\ ~config_loaded
    /\ LET client_id == payload_ids.client
           scene_id == payload_ids.scene
       IN IF \/ Falsy(client_id)
             \/ Falsy(scene_id)
             \/ validate_safe_id(client_id) = HTTPException(400)
             \/ validate_safe_id(scene_id) = HTTPException(400)
          THEN http' = 400 /\ UNCHANGED config_loaded
          ELSE config_loaded' = TRUE /\ UNCHANGED http
    /\ UNCHANGED <<ctx, requested, build_str, tile_cache, served, renders,
                   build_input, validated, verdict, payload_ids>>
    /\ UNCHANGED notBuild

\* One scene and its render requests, or one {build} value, or the ids of
\* one render request.
InitBuilds ==
    /\ InitController
    /\ \A k \in RenderKeys : faceSize[k] = TILE_SIZE
    /\ BUILD_STATUS = <<>>
    /\ InitWorkers
    /\ InitQueue("queue", 1, 0)
    /\ InitPut(1, 0)
    /\ InitLog("local")
    /\ InitSplit("package", NoSplitInput)
    /\ InitLru
    /\ \/ \E c \in Scenes : InitBuild(c, NoValue, NoIds)
       \/ \E v \in BuildValues : InitBuild(NoCtx, v, NoIds)
       \/ \E p \in IdPairs : InitBuild(NoCtx, NoValue, p)

NextBuilds ==
    \/ \E sel \in Selections : RenderSelection(sel)
    \/ ValidateRendered
    \/ ValidateBuildInput
    \/ RenderIds

SpecBuilds == InitBuilds /\ [][NextBuilds]_vars

\* The two characters base 36 writes a number below 36^2 with.
TwoDigits(v) ==
    <<chars[(v \div CONFIG_STRING_BASE) + 1], chars[(v % CONFIG_STRING_BASE) + 1]>>

\* The characters of slot k of a build string.
Slot(build, k) ==
    SubSeq(build, SCENE_CHARS + LAYER_CHARS * k + 1,
                  SCENE_CHARS + LAYER_CHARS * (k + 1))

\* The layers with build_order k for which the request selects one of
\* their items.
SelectedIn(k) ==
    {i \in 1..Len(ctx.layers) :
        /\ ctx.layers[i].build_order = k
        /\ \E j \in 1..Len(ctx.layers[i].items) :
              ctx.layers[i].items[j].id = Get(requested, ctx.layers[i].id)}

\* C27: the build string of a request is the same whenever it is computed
\* from the same scene index, layers and selection; it has exactly 12
\* characters of [0-9a-z]: the two base-36 digits of the scene index, then
\* for each slot k in 0..4 the two base-36 digits of the index of the item
\* selected for a layer with build_order k, and "00" when no layer with
\* build_order k exists or none has an item of its own selected.
C27_BuildString ==
    renders > 0 =>
        /\ build_str = build_string_from_selection(ctx.scene_index,
                                                   ctx.layers, requested)
        /\ Len(build_str) = BUILD_TOTAL
        /\ BUILD_TOTAL = 12
        /\ \A i \in 1..Len(build_str) : build_str[i] \in Alnum
        /\ SubSeq(build_str, 1, SCENE_CHARS) = TwoDigits(ctx.scene_index)
        /\ \A k \in 0..(FIXED_LAYERS - 1) :
              IF SelectedIn(k) = {}
              THEN Slot(build_str, k) = <<"0", "0">>
              ELSE \E i \in SelectedIn(k) :
                      \E j \in 1..Len(ctx.layers[i].items) :
                          /\ ctx.layers[i].items[j].id
                                 = Get(requested, ctx.layers[i].id)
                          /\ Slot(build_str, k)
                                 = TwoDigits(ctx.layers[i].items[j].index)

\* A request whose build string has a slot of a selected item with index
\* 36^2 - 1 and a slot of a layer whose selection names no item of it.
C27_Witness ==
    /\ renders > 0
    /\ \E k \in 0..(FIXED_LAYERS - 1) :
          SelectedIn(k) # {} /\ Slot(build_str, k) = <<"z", "z">>
    /\ \E i \in 1..Len(ctx.layers) :
          /\ ctx.layers[i].build_order \in 0..(FIXED_LAYERS - 1)
          /\ SelectedIn(ctx.layers[i].build_order) = {}
          /\ Get(requested, i) = UnknownItem

\* A string of exactly 12 characters of [0-9a-z].
WellFormedBuild(v) ==
    /\ v.type = "str"
    /\ Len(v.s) = 12
    /\ \A i \in 1..Len(v.s) : v.s[i] \in Alnum

\* C28: validate_build_string returns every build string that
\* build_string_from_selection produced, and raises HTTP 400 for every value
\* that is not a string of exactly 12 characters of [0-9a-z].
C28_ValidateBuild ==
    validated # NoValue =>
        /\ (renders > 0 /\ validated = Str(build_str)) => verdict = validated
        /\ ~WellFormedBuild(validated) => verdict = HTTPException(400)

\* The build string of a request with a selected item was validated and
\* returned.
C28_Witness ==
    /\ renders > 0
    /\ validated = Str(build_str)
    /\ verdict = validated
    /\ \E k \in 0..(FIXED_LAYERS - 1) : Slot(build_str, k) # <<"0", "0">>

\* The ids validate_safe_id is said to reject.
UnsafeId(v) ==
    \/ v.type # "str"
    \/ ContainsDotDot(v.s)
    \/ Contains(v.s, "/")
    \/ Contains(v.s, "\\")
    \/ (v.s # <<>> /\ (v.s[1] = "-" \/ v.s[Len(v.s)] = "-"))
    \/ \E i \in 1..Len(v.s) : v.s[i] \notin Alnum \cup {"-"}

\* C29: validate_safe_id raises HTTP 400 for every id that contains "..",
\* "/", a backslash, a leading or trailing hyphen, an uppercase letter or
\* any character outside [a-z0-9-], and a render request with such a client
\* or scene id is answered 400 without load_client_config being called.
C29_UnsafeIdRejected ==
    (http # 0 \/ config_loaded) =>
        \A v \in {payload_ids.client, payload_ids.scene} :
            UnsafeId(v) => /\ validate_safe_id(v) = HTTPException(400)
                           /\ http = 400
                           /\ ~config_loaded

\* C30: the tiles a render request is answered with show the composite of
\* the materials of its own selection, also when the build string was
\* already in the cache.
C30_CacheCorrect ==
    renders > 0 => served = stack_layers_image_only(ctx.layers, requested)

\* ------------------------------------------- process_cubemap_to_memory
notSplit == <<ctlVars, BUILD_STATUS, regVars, queueVars, putVars, logVars,
              bsVars, lruVars>>

SplitSizes == split_lod_sizes(split_impl, split_input.face_size,
                              split_input.tile_size)

\* From the call to the list `faces`: the checks of lod_sizes and min_lod,
\* the early return of [] and the loop over STRIP_FACES.
SplitBegin ==
    /\ split_pc = "call"
    /\ IF SplitSizes = <<>> \/ split_input.min_lod < 0
       THEN /\ split_pc' = "raised"
            /\ UNCHANGED split_faces
       ELSE IF final_lod_of(SplitSizes, split_input.max_lod) < split_input.min_lod
       THEN /\ split_pc' = "returned"
            /\ UNCHANGED split_faces
       ELSE /\ split_pc' = "lods"
            /\ split_faces' = extract_faces(STRIP_FACES)
    /\ UNCHANGED <<split_impl, split_input, lod_index, split_out>>
    /\ UNCHANGED notSplit

\* One pass of the loop over enumerate(lod_sizes).
SplitLod ==
    /\ split_pc = "lods"
    /\ lod_index < Len(SplitSizes)
    /\ LET target_size == SplitSizes[lod_index + 1][1]
           lod_tile_size == SplitSizes[lod_index + 1][2]
       IN IF \/ lod_index < split_input.min_lod
             \/ lod_index > final_lod_of(SplitSizes, split_input.max_lod)
          THEN UNCHANGED split_out
          ELSE split_out' = split_out
                   \o extend_faces(split_faces, Len(split_faces), lod_index,
                                   target_size, lod_tile_size, SplitBuild)
    /\ lod_index' = lod_index + 1
    /\ UNCHANGED <<split_impl, split_input, split_pc, split_faces>>
    /\ UNCHANGED notSplit

\* return tiles
SplitReturn ==
    /\ split_pc = "lods"
    /\ lod_index = Len(SplitSizes)
    /\ split_pc' = "returned"
    /\ UNCHANGED <<split_impl, split_input, split_faces, lod_index, split_out>>
    /\ UNCHANGED notSplit

InitSplits ==
    /\ InitController
    /\ \A k \in RenderKeys : faceSize[k] = TILE_SIZE
    /\ BUILD_STATUS = <<>>
    /\ InitWorkers
    /\ InitQueue("queue", 1, 0)
    /\ InitPut(1, 0)
    /\ InitLog("local")
    /\ InitBuild(NoCtx, NoValue, NoIds)
    /\ InitLru
    /\ \E m \in SplitImpls, input \in SplitInputs : InitSplit(m, input)

NextSplits ==
    \/ SplitBegin
    \/ SplitLod
    \/ SplitReturn

SpecSplits == InitSplits /\ [][NextSplits]_vars

\* The tiles of the returned list at one LOD.
TilesAt(level) == {n \in 1..Len(split_out) : split_out[n].lod = level}

\* A filename of the form {build}_{face}_{lod}_{x}_{y}.jpg for a tile of
\* the given lod.
WellNamed(t) ==
    /\ Len(t.filename) = 6
    /\ t.filename[1] = SplitBuild
    /\ t.filename[2] \in {"f", "b", "l", "r", "u", "d"}
    /\ t.filename[3] = t.lod
    /\ t.filename[3] \in {0, 1}
    /\ t.filename[4] \in 0..(IF t.lod = 0 THEN 1 ELSE 3)
    /\ t.filename[5] \in 0..(IF t.lod = 0 THEN 1 ELSE 3)
    /\ t.filename[6] = ".jpg"

\* C31: with tile size 512 and face size 1024 or 2048, the call returns
\* 120 tiles, 24 at LOD0 and 96 at LOD1, each named
\* {build}_{face}_{lod}_{x}_{y}.jpg with a face letter of f, b, l, r, u, d,
\* the lod of its tuple, x and y in 0..1 at LOD0 and 0..3 at LOD1, no two
\* with the same name; 24 tiles for min_lod = max_lod = 0 and 96 for
\* min_lod = max_lod = 1.
C31_TileCounts ==
    (/\ split_pc = "returned"
     /\ split_input.tile_size = 512
     /\ split_input.face_size \in {1024, 2048}) =>
        /\ (split_input.min_lod = 0 /\ split_input.max_lod = NoMaxLod) =>
              /\ Len(split_out) = 120
              /\ Cardinality(TilesAt(0)) = 24
              /\ Cardinality(TilesAt(1)) = 96
        /\ (split_input.min_lod = 0 /\ split_input.max_lod = 0) =>
              Len(split_out) = 24
        /\ (split_input.min_lod = 1 /\ split_input.max_lod = 1) =>
              Len(split_out) = 96
        /\ \A n \in 1..Len(split_out) : WellNamed(split_out[n])
        /\ \A n, o \in 1..Len(split_out) :
              n # o => split_out[n].filename # split_out[o].filename

\* The face entry cut from face k of the strip.
FaceFrom(k) ==
    split_faces[CHOOSE i \in 1..Len(split_faces) : split_faces[i].source = k]

notLru == <<ctlVars, BUILD_STATUS, regVars, queueVars, putVars, logVars,
            bsVars, splitVars>>

\* _get_render_lock with the newest entries evicted.
LruGetEvictsNewest(c, k) ==
    /\ lru_pc[c] = "idle"
    /\ lru_calls < MaxGets
    /\ LET found == HasKey(lru_map, k)
           new_lock == lru_made + 1
       IN /\ lru_map' = IF found THEN render_locks_after(lru_map, k, new_lock)
                        ELSE popitems_newest(
                                 Append(lru_map, [key |-> k, lock |-> new_lock]))
          /\ lru_made' = IF found THEN lru_made ELSE new_lock
          /\ lru_lock' = [lru_lock EXCEPT ![c] =
                             IF found THEN LockOf(lru_map, k) ELSE new_lock]
    /\ lru_key' = [lru_key EXCEPT ![c] = k]
    /\ lru_pc' = [lru_pc EXCEPT ![c] = "acquire"]
    /\ lru_used' = [lru_used EXCEPT ![k] = lru_calls + 1]
    /\ lru_calls' = lru_calls + 1
    /\ lru_last' = k
    /\ UNCHANGED lru_holder
    /\ UNCHANGED notLru

\* render_lock = _get_render_lock(render_key), under render_locks_guard
\* (server.py:77-86, 572).
LruGet(c, k) ==
    /\ lru_pc[c] = "idle"
    /\ lru_calls < MaxGets
    /\ LET found == HasKey(lru_map, k)
           new_lock == lru_made + 1
       IN /\ lru_map' = render_locks_after(lru_map, k, new_lock)
          /\ lru_made' = IF found THEN lru_made ELSE new_lock
          /\ lru_lock' = [lru_lock EXCEPT ![c] =
                             IF found THEN LockOf(lru_map, k) ELSE new_lock]
    /\ lru_key' = [lru_key EXCEPT ![c] = k]
    /\ lru_pc' = [lru_pc EXCEPT ![c] = "acquire"]
    /\ lru_used' = [lru_used EXCEPT ![k] = lru_calls + 1]
    /\ lru_calls' = lru_calls + 1
    /\ lru_last' = k
    /\ UNCHANGED lru_holder
    /\ UNCHANGED notLru

\* `with render_lock:` entered (server.py:573).
LruAcquire(c) ==
    /\ lru_pc[c] = "acquire"
    /\ lru_holder[lru_lock[c]] = NoCaller
    /\ lru_holder' = [lru_holder EXCEPT ![lru_lock[c]] = c]
    /\ lru_pc' = [lru_pc EXCEPT ![c] = "holding"]
    /\ UNCHANGED <<lru_map, lru_made, lru_key, lru_lock, lru_used, lru_calls,
                   lru_last>>
    /\ UNCHANGED notLru

\* `with render_lock:` left (server.py:573-603).
LruRelease(c) ==
    /\ lru_pc[c] = "holding"
    /\ lru_holder' = [lru_holder EXCEPT ![lru_lock[c]] = NoCaller]
    /\ lru_pc' = [lru_pc EXCEPT ![c] = "idle"]
    /\ UNCHANGED <<lru_map, lru_made, lru_key, lru_lock, lru_used, lru_calls,
                   lru_last>>
    /\ UNCHANGED notLru

InitLocks ==
    /\ InitController
    /\ \A k \in RenderKeys : faceSize[k] = TILE_SIZE
    /\ BUILD_STATUS = <<>>
    /\ InitWorkers
    /\ InitQueue("queue", 1, 0)
    /\ InitPut(1, 0)
    /\ InitLog("local")
    /\ InitBuild(NoCtx, NoValue, NoIds)
    /\ InitSplit("package", NoSplitInput)
    /\ InitLru

NextLocks ==
    \/ \E c \in Callers, k \in LruKeys : LruGet(c, k)
    \/ \E c \in Callers : LruAcquire(c)
    \/ \E c \in Callers : LruRelease(c)

SpecLocks == InitLocks /\ [][NextLocks]_vars

\* The keys requested so far, and those among them requested later than k.
Requested == {k \in LruKeys : lru_used[k] > 0}
LaterThan(k) == {o \in Requested : lru_used[o] > lru_used[k]}

\* C33: after every call of _get_render_lock the map holds at most
\* MAX_RENDER_LOCKS entries, the key just requested is its newest entry, and
\* the keys it holds are the most recently requested ones, oldest first: a
\* requested key is missing only if MAX_RENDER_LOCKS keys were requested
\* after it.
C33_BoundedLru ==
    lru_calls > 0 =>
        /\ Len(lru_map) <= LruCap
        /\ Len(lru_map) >= 1
        /\ lru_map[Len(lru_map)].key = lru_last
        /\ \A i, j \in 1..Len(lru_map) :
              i < j => lru_used[lru_map[i].key] < lru_used[lru_map[j].key]
        /\ \A k \in Requested :
              HasKey(lru_map, k) <=> Cardinality(LaterThan(k)) < LruCap

\* More keys than MAX_RENDER_LOCKS were requested and one was evicted.
C33_Witness ==
    /\ Cardinality(Requested) > LruCap
    /\ Len(lru_map) = LruCap
    /\ \E k \in Requested : ~HasKey(lru_map, k)

\* C37: two callers with the same render key are never inside
\* `with render_lock` at the same time.
C37_OneHolderPerKey ==
    \A c, d \in Callers :
        (c # d /\ lru_pc[c] = "holding" /\ lru_pc[d] = "holding")
            => lru_key[c] # lru_key[d]

\* The render keys of a build.
KeysOfBuild(b) == {k \in RenderKeys : BuildOf(k) = b}

\* C34: every registry record has lod_ready in {-1, 0, 1}; it has
\* lod_ready = 0 with faces_ready and tiles_ready only if the 24 LOD0 tiles
\* of a render of the build are in the store, and lod_ready = 1 only if its
\* 96 LOD1 tiles are there as well.
C34_LodReady ==
    \A b \in DOMAIN BUILD_STATUS :
        LET rec == GetBuildState(BUILD_STATUS, b)
        IN /\ rec.lod_ready \in {-1, 0, 1}
           /\ (rec.lod_ready = 0 /\ rec.faces_ready /\ rec.tiles_ready) =>
                 \E k \in KeysOfBuild(b) : tiles[k][1] = 24
           /\ rec.lod_ready = 1 =>
                 \E k \in KeysOfBuild(b) : tiles[k] = <<24, 96>>

\* ------------------------------------------------------------ progress
\* The steps of an admitted render: the synchronous LOD0 phase and the
\* scheduled background task.  Every one of them is a call that returns or
\* raises, and BackgroundTasks runs the task once the response is sent.
RenderStep(r) ==
    \/ Lod0Render(r)
    \/ Lod0Upload(r)
    \/ BgRender(r)
    \/ BgUpload(r)
    \/ BgTmp(r)
    \/ BgMeta(r)
    \/ BgCompleted(r)
    \/ BgError(r)
    \/ BgFinally(r)

\* Request r was admitted on a cache miss and its render has not ended.
Admitted(r) ==
    \/ pc[r] \in {"lod0", "upload0"}
    \/ bg[r] \in {"start", "upload", "tmp", "meta", "completed", "error",
                  "finally"}

\* RenderStep(r) can be taken: the render is under way and, at its finally
\* branch, active_background_guard is free.
RenderEnabled(r) ==
    /\ Admitted(r)
    /\ bg[r] = "finally" => guardHolder = NoReq

\* The render of request r takes a step.
RenderMoved(r) == Admitted(r) /\ (pc'[r] # pc[r] \/ bg'[r] # bg[r])

\* RenderEnabled and RenderMoved are the enabling condition and the steps
\* of RenderStep.
RenderStepIsExact ==
    [][\A r \in 1..MaxRenders :
          /\ RenderEnabled(r) <=> ENABLED RenderStep(r)
          /\ RenderMoved(r) <=> RenderStep(r)]_vars

\* Weak fairness of RenderStep(r), that is WF_vars(RenderStep(r)), written
\* with its enabling condition and its steps spelled out: a render that
\* stays able to take its next step takes it.
RenderIsRun(r) == ([]<>~RenderEnabled(r)) \/ ([]<><<RenderMoved(r)>>_vars)

\* The controller with the cube faces of every render 2048 pixels wide.
InitProgress == Init /\ \A k \in RenderKeys : faceSize[k] = 2048

SpecProgress ==
    InitProgress /\ [][Next]_vars /\ \A r \in 1..MaxRenders : RenderIsRun(r)

\* C35: every render admitted on a cache miss reaches the end of its
\* background task with the registry record of its build completed or error
\* and its render key out of active_background_renders.
C35_RenderEnds ==
    \A r \in 1..MaxRenders :
        Admitted(r) ~>
            (/\ bg[r] = "done"
             /\ key[r] \notin active_background_renders
             /\ StatusOf(BUILD_STATUS, BuildOf(key[r])) \in {"completed", "error"})

\* ------------------------------------------------------------ rate limit
\* The limiter decides on request r in this step.
Decides(r) == pc[r] = "rate" /\ pc'[r] # "rate"

\* C36: a request answered 429 leaves last_request_time unchanged, a request
\* that arrived at least MIN_INTERVAL after last_request_time is accepted,
\* and every 429 is owed to an accepted request (or to the initial
\* timestamp) less than MIN_INTERVAL before it, never to a rejected one.
C36_RejectionKeepsTime ==
    [][\A r \in Reqs :
          Decides(r) =>
             /\ resp'[r] = TooManyRequests
                   => last_request_time' = last_request_time
             /\ now[r] - last_request_time >= MIN_INTERVAL
                   => (resp'[r] # TooManyRequests /\ last_request_time' = now[r])
             /\ resp'[r] = TooManyRequests
                   => \/ now[r] < MIN_INTERVAL
                      \/ \E r2 \in Reqs \ {r} :
                            /\ Accepted(r2)
                            /\ now[r] - now[r2] < MIN_INTERVAL]_vars

\* C36 witness: a request rejected less than MIN_INTERVAL after an accepted
\* one, and a later request, less than MIN_INTERVAL after the rejected one
\* but MIN_INTERVAL after the accepted one, accepted.
C36_Witness ==
    \E r1, r2, r3 \in Reqs :
        /\ Accepted(r1) /\ Rejected(r2) /\ Accepted(r3)
        /\ now[r1] <= now[r2] /\ now[r2] <= now[r3]
        /\ now[r2] - now[r1] < MIN_INTERVAL
        /\ now[r3] - now[r2] < MIN_INTERVAL
        /\ now[r3] - now[r1] >= MIN_INTERVAL
        /\ last_request_time = now[r3]

\* ------------------------------------------------------ status isolation
\* The fields of the answer of GET /api/status/{build} the client polls.
Reported(bs, b) ==
    LET answer == status_response(bs, b)
    IN [f \in {"status", "progress", "tiles_uploaded", "lod_ready"}
              \cap DOMAIN answer |-> answer[f]]

\* A render of build b for client A takes a step.
RenderStepOf(A, b) ==
    \E r \in Reqs : key[r] = <<A, b>> /\ (pc'[r] # pc[r] \/ bg'[r] # bg[r])

\* A status probe of build b for client A takes a step.
ProbeStepOf(A, b) ==
    /\ UNCHANGED <<pc, bg>>
    /\ \E read_error \in BOOLEAN :
          BUILD_STATUS' = render_status_registry(BUILD_STATUS, b, A, read_error)

\* C38: what GET /api/status/{build} reports for a client changes only by a
\* step of a render or of a status probe of that build for that client.
C38_StatusIsolated ==
    [][\A A \in Clients, b \in Builds :
          Reported(BUILD_STATUS', b) # Reported(BUILD_STATUS, b)
             => (RenderStepOf(A, b) \/ ProbeStepOf(A, b))]_vars

\* ------------------------------------------------- progress of the queue
\* The blocking calls of the producer and the steps of the worker threads:
\* queue.put, Semaphore.acquire, queue.get, upload_fn (which returns or
\* raises), the finally block, queue.join and wait/shutdown.  Whether the
\* producer calls enqueue or close_and_wait at all is its own choice.
SpecUploaderProgress ==
    /\ InitUploader
    /\ [][NextUploader]_vars
    /\ WF_vars(EnqueuePut)
    /\ WF_vars(EnqueueSubmit)
    /\ WF_vars(ClosePutSentinel)
    /\ WF_vars(CloseEnd)
    /\ \A p \in Pool : WF_vars(WorkerGet(p))
    /\ \A p \in Pool : WF_vars(WorkerUpload(p))
    /\ \A p \in Pool : WF_vars(WorkerFinally(p))

\* C39: every enqueue call that reached its blocking call returns, and
\* every close_and_wait call that closed the queue returns or raises.
C39_QueueTerminates ==
    /\ (ppc = "put") ~> (ppc = "ready")
    /\ (ppc \in {"sentinels", "wait"}) ~> (ppc = "ready" /\ calls # <<>>)

\* C39 witness: more tiles than the in-flight bound were enqueued, so that
\* enqueue had to wait for a worker, and close_and_wait has ended.
C39_Witness ==
    /\ ntiles > InFlightBound + workers
    /\ enqueued = ntiles
    /\ ppc = "ready"
    /\ calls # <<>>
    /\ \A p \in Pool : thread[p] \in {"exited", "off"}

\* C35 witness: two renders admitted on a cache miss have ended, one
\* completed and one failed, and no render key is left in
\* active_background_renders.
C35_Witness ==
    \E r1, r2 \in 1..MaxRenders :
        /\ bg[r1] = "done" /\ bgResult[r1] = "completed"
        /\ bg[r2] = "done" /\ bgResult[r2] = "error"
        /\ active_background_renders = {}
        /\ StatusOf(BUILD_STATUS, BuildOf(key[r1])) \in {"completed", "error"}

====
